---- MODULE Spec2Model ----
(***************************************************************************)
(* Documentation cache and retrieval engine of agentic-tools-mcp:          *)
(* the version resolver (version-utils.ts), the single-tier document store *)
(* (doc-file-storage.ts), the dual-tier coordinator (dual-storage.ts) and  *)
(* the directed sync tool (SyncDocsTool).                                  *)
(*                                                                         *)
(* Strings are sequences of one-character strings, so that parsing,        *)
(* sanitizing and substring search are computed as the code computes them. *)
(***************************************************************************)
EXTENDS Integers, Sequences, FiniteSets, TLC

VARIABLES project, global, now, nextId, last

vars == <<project, global, now, nextId, last>>

(***************************************************************************)
(* Bounds of the model.                                                    *)
(***************************************************************************)
MaxTime == 2
MaxDocs == 2
MaxLimit == 2
MaxLen == 3

(***************************************************************************)
(* String helpers.                                                         *)
(***************************************************************************)
Digits == {"0", "1", "2", "3", "4", "5", "6", "7", "8", "9"}

DigitVal(c) ==
  CASE c = "0" -> 0 [] c = "1" -> 1 [] c = "2" -> 2 [] c = "3" -> 3
    [] c = "4" -> 4 [] c = "5" -> 5 [] c = "6" -> 6 [] c = "7" -> 7
    [] c = "8" -> 8 [] c = "9" -> 9

Drop(s, n) == IF n >= Len(s) THEN << >> ELSE SubSeq(s, n + 1, Len(s))

StartsWith(s, c) == Len(s) > 0 /\ s[1] = c

\* Number of leading decimal digits of s.
RECURSIVE DigitRun(_)
DigitRun(s) ==
  IF Len(s) > 0 /\ s[1] \in Digits THEN 1 + DigitRun(Tail(s)) ELSE 0

\* parseInt(digits, 10) of a non-empty digit string.
RECURSIVE ParseInt(_)
ParseInt(s) ==
  IF Len(s) = 0 THEN 0
  ELSE 10 * ParseInt(SubSeq(s, 1, Len(s) - 1)) + DigitVal(s[Len(s)])

\* String.prototype.split('.').length
RECURSIVE CountDots(_)
CountDots(s) ==
  IF Len(s) = 0 THEN 0
  ELSE (IF s[1] = "." THEN 1 ELSE 0) + CountDots(Tail(s))

SplitDotLength(s) == CountDots(s) + 1

UpperCase ==
  <<"A", "B", "C", "D", "E", "F", "G", "H", "I", "J", "K", "L", "M",
    "N", "O", "P", "Q", "R", "S", "T", "U", "V", "W", "X", "Y", "Z">>

LowerCase ==
  <<"a", "b", "c", "d", "e", "f", "g", "h", "i", "j", "k", "l", "m",
    "n", "o", "p", "q", "r", "s", "t", "u", "v", "w", "x", "y", "z">>

LowerOf ==
  [c \in {UpperCase[i] : i \in 1..26} |->
     LowerCase[CHOOSE i \in 1..26 : UpperCase[i] = c]]

ToLowerChar(c) == IF c \in DOMAIN LowerOf THEN LowerOf[c] ELSE c

ToLower(s) == [i \in 1..Len(s) |-> ToLowerChar(s[i])]

\* String.prototype.includes
Includes(s, q) ==
  \E i \in 0..(Len(s) - Len(q)) : SubSeq(s, i + 1, i + Len(q)) = q

(***************************************************************************)
(* Version Resolver (version-utils.ts).                                    *)
(***************************************************************************)
\* A nullable value is a sequence of at most one element: Null, or Some(x).
Null == << >>
Some(x) == <<x>>
Get(o) == o[1]

LATEST == <<"l", "a", "t", "e", "s", "t">>
STAR == <<"*">>

\* The library names and version strings the operations are called with.
REACT == <<"r", "e", "a", "c", "t">>
VUE == <<"v", "u", "e">>
V18_0_0 == <<"1", "8", ".", "0", ".", "0">>
V18_2_0 == <<"1", "8", ".", "2", ".", "0">>
CARET_18_0_0 == <<"^", "1", "8", ".", "0", ".", "0">>

\* A library name that the sanitizer rewrites.
SCOPED == <<"@", "a", "/", "b">>

\* A different library name that the sanitizer leaves as it is, and that is
\* what the sanitizer makes of SCOPED.
FLATTENED == <<"@", "a", "_", "b">>

V1_0_0 == <<"1", ".", "0", ".", "0">>
V1_2_0 == <<"1", ".", "2", ".", "0">>
V2_0_0 == <<"2", ".", "0", ".", "0">>
V_1_2_0 == <<"v", "1", ".", "2", ".", "0">>
CARET_1_0_0 == <<"^", "1", ".", "0", ".", "0">>
CARET_1_0_5 == <<"^", "1", ".", "0", ".", "5">>
TILDE_1_0_0 == <<"~", "1", ".", "0", ".", "0">>
MAJOR_1 == <<"1">>
MINOR_1_2 == <<"1", ".", "2">>
\* A version string that does not parse.
NEXT == <<"n", "e", "x", "t">>

StoredVersionStrings == {V1_0_0, V1_2_0, V2_0_0, V_1_2_0, NEXT, LATEST}
RequestedVersionStrings ==
  StoredVersionStrings
    \cup {CARET_1_0_0, CARET_1_0_5, TILDE_1_0_0, MAJOR_1, MINOR_1_2, STAR}

Names ==
  {REACT, VUE, SCOPED, FLATTENED, V18_0_0, V18_2_0, CARET_18_0_0} \cup RequestedVersionStrings

\* An optional group (?:\.(\d+))? matched at the head of s: the number of
\* characters it consumes (0 when it does not match).
DotGroupLen(s) ==
  IF StartsWith(s, ".") /\ DigitRun(Tail(s)) > 0
  THEN 1 + DigitRun(Tail(s)) ELSE 0

DotGroupVal(s) ==
  IF DotGroupLen(s) = 0 THEN 0
  ELSE ParseInt(SubSeq(s, 2, DotGroupLen(s)))

parseVersion(version) ==
  IF version = LATEST \/ version = STAR THEN Null
  ELSE
    LET cleaned == IF Len(version) > 0 /\ version[1] \in {"v", "^", "~"}
                   THEN Tail(version) ELSE version
        n1 == DigitRun(cleaned)
        rest1 == Drop(cleaned, n1)
        rest2 == Drop(rest1, DotGroupLen(rest1))
    IN IF n1 = 0 THEN Null
       ELSE Some([major |-> ParseInt(SubSeq(cleaned, 1, n1)),
                  minor |-> DotGroupVal(rest1),
                  patch |-> DotGroupVal(rest2)])

\* parseVersion on the version strings the model uses, computed once.
ParsedNames == [n \in Names |-> parseVersion(n)]

Parsed(version) == ParsedNames[version]

\* Variant: a caret request compares minor and patch one by one.
isVersionCompatibleComponentwise(stored, requested) ==
  IF requested = LATEST \/ requested = STAR THEN TRUE
  ELSE IF stored = requested THEN TRUE
  ELSE
    LET sp == Parsed(stored)
        rp == Parsed(requested)
        storedParsed == Get(sp)
        requestedParsed == Get(rp)
        requestedParts == SplitDotLength(requested)
    IN IF sp = Null \/ rp = Null THEN FALSE
       ELSE IF StartsWith(requested, "^") THEN
         storedParsed.major = requestedParsed.major /\
         storedParsed.minor >= requestedParsed.minor /\
         storedParsed.patch >= requestedParsed.patch
       ELSE IF StartsWith(requested, "~") THEN
         storedParsed.major = requestedParsed.major /\
         storedParsed.minor = requestedParsed.minor /\
         storedParsed.patch >= requestedParsed.patch
       ELSE IF requestedParts = 1 THEN
         storedParsed.major = requestedParsed.major
       ELSE IF requestedParts = 2 THEN
         storedParsed.major = requestedParsed.major /\
         storedParsed.minor = requestedParsed.minor
       ELSE
         storedParsed.major = requestedParsed.major /\
         storedParsed.minor = requestedParsed.minor /\
         storedParsed.patch = requestedParsed.patch

isVersionCompatible(stored, requested) ==
  IF requested = LATEST \/ requested = STAR THEN TRUE
  ELSE IF stored = requested THEN TRUE
  ELSE
    LET sp == Parsed(stored)
        rp == Parsed(requested)
        storedParsed == Get(sp)
        requestedParsed == Get(rp)
        requestedParts == SplitDotLength(requested)
    IN IF sp = Null \/ rp = Null THEN FALSE
       ELSE IF StartsWith(requested, "^") THEN
         storedParsed.major = requestedParsed.major /\
         (storedParsed.minor > requestedParsed.minor \/
          (storedParsed.minor = requestedParsed.minor /\
           storedParsed.patch >= requestedParsed.patch))
       ELSE IF StartsWith(requested, "~") THEN
         storedParsed.major = requestedParsed.major /\
         storedParsed.minor = requestedParsed.minor /\
         storedParsed.patch >= requestedParsed.patch
       ELSE IF requestedParts = 1 THEN
         storedParsed.major = requestedParsed.major
       ELSE IF requestedParts = 2 THEN
         storedParsed.major = requestedParsed.major /\
         storedParsed.minor = requestedParsed.minor
       ELSE
         storedParsed.major = requestedParsed.major /\
         storedParsed.minor = requestedParsed.minor /\
         storedParsed.patch = requestedParsed.patch

compareVersions(v1, v2) ==
  LET o1 == Parsed(v1)
      o2 == Parsed(v2)
      p1 == Get(o1)
      p2 == Get(o2)
  IN IF o1 = Null \/ o2 = Null THEN 0
     ELSE IF p1.major # p2.major THEN (IF p1.major > p2.major THEN 1 ELSE -1)
     ELSE IF p1.minor # p2.minor THEN (IF p1.minor > p2.minor THEN 1 ELSE -1)
     ELSE IF p1.patch # p2.patch THEN (IF p1.patch > p2.patch THEN 1 ELSE -1)
     ELSE 0

\* Array.prototype.reduce without an initial value, keeping the highest.
RECURSIVE ReduceHighest(_, _)
ReduceHighest(highest, rest) ==
  IF Len(rest) = 0 THEN highest
  ELSE ReduceHighest(IF compareVersions(rest[1], highest) > 0
                     THEN rest[1] ELSE highest, Tail(rest))

\* Variant: the first compatible version is returned, not the highest.
findBestVersionFirst(available, requested) ==
  IF Len(available) = 0 THEN Null
  ELSE IF requested = LATEST \/ requested = STAR THEN Some(available[1])
  ELSE
    LET First(compatible) ==
          IF Len(compatible) = 0 THEN Null ELSE Some(compatible[1])
    IN First(SelectSeq(available, LAMBDA v : isVersionCompatible(v, requested)))

findBestVersion(available, requested) ==
  IF Len(available) = 0 THEN Null
  ELSE IF requested = LATEST \/ requested = STAR
    THEN Some(ReduceHighest(available[1], Tail(available)))
  ELSE
    LET Highest(compatible) ==
          IF Len(compatible) = 0 THEN Null
          ELSE Some(ReduceHighest(compatible[1], Tail(compatible)))
    IN Highest(SelectSeq(available, LAMBDA v : isVersionCompatible(v, requested)))

(***************************************************************************)
(* Document Store, one tier (doc-file-storage.ts).                         *)
(* A tier is the content of its two directories: docs maps the path        *)
(* <<safeLibrary, safeVersion>> of each document file to the document,     *)
(* libs maps the path safeName of each library file to the Library record. *)
(***************************************************************************)
SanitizeMaxLen == 100

HostileChars == {"/", "\\", ":", "*", "?", "\"", "<", ">", "|"}
Whitespace == {" ", "\t", "\n"}

ReplaceHostile(s) ==
  [i \in 1..Len(s) |-> IF s[i] \in HostileChars THEN "_" ELSE s[i]]

\* Replaces every maximal run of characters of set cs (a run of at least
\* minRun characters) by one underscore.
RECURSIVE CollapseRuns(_, _, _)
CollapseRuns(s, cs, minRun) ==
  IF Len(s) = 0 THEN << >>
  ELSE IF s[1] \in cs THEN
    LET RECURSIVE Run(_)
        Run(r) == IF Len(r) > 0 /\ r[1] \in cs THEN 1 + Run(Tail(r)) ELSE 0
        n == Run(s)
    IN IF n >= minRun
       THEN <<"_">> \o CollapseRuns(Drop(s, n), cs, minRun)
       ELSE SubSeq(s, 1, n) \o CollapseRuns(Drop(s, n), cs, minRun)
  ELSE <<s[1]>> \o CollapseRuns(Tail(s), cs, minRun)

RECURSIVE StripLeading(_)
StripLeading(s) ==
  IF Len(s) > 0 /\ s[1] = "_" THEN StripLeading(Tail(s)) ELSE s

RECURSIVE StripTrailing(_)
StripTrailing(s) ==
  IF Len(s) > 0 /\ s[Len(s)] = "_"
  THEN StripTrailing(SubSeq(s, 1, Len(s) - 1)) ELSE s

sanitizeFileName(input) ==
  LET a == ReplaceHostile(input)
      b == CollapseRuns(a, Whitespace, 1)
      c == CollapseRuns(b, {"_"}, 2)
      d == StripTrailing(StripLeading(c))
      e == IF Len(d) > SanitizeMaxLen THEN SubSeq(d, 1, SanitizeMaxLen) ELSE d
  IN IF e = << >> THEN <<"d", "o", "c">> ELSE e

\* sanitizeFileName on the names the model uses, computed once.
SanitizedNames == [n \in Names |-> sanitizeFileName(n)]

Safe(name) == SanitizedNames[name]

getDocumentPath(library, version) == <<Safe(library), Safe(version)>>

getLibraryPath(name) == Safe(name)

EmptyDir == [p \in {} |-> 0]

EmptyTier == [docs |-> EmptyDir, libs |-> EmptyDir]

\* Variant: a file that exists is not written again.
WriteFileIfAbsent(dir, path, value) ==
  [p \in DOMAIN dir \cup {path} |-> IF p \in DOMAIN dir THEN dir[p] ELSE value]

WriteFile(dir, path, value) ==
  [p \in DOMAIN dir \cup {path} |-> IF p = path THEN value ELSE dir[p]]

Unlink(dir, paths) ==
  [p \in DOMAIN dir \ paths |-> dir[p]]

SeqIncludes(s, x) == \E i \in 1..Len(s) : s[i] = x

StoreGetDocument(t, library, version) ==
  LET docPath == getDocumentPath(library, version)
  IN IF docPath \in DOMAIN t.docs THEN Some(t.docs[docPath]) ELSE Null

getLibrary(t, name) ==
  LET libraryPath == getLibraryPath(name)
  IN IF libraryPath \in DOMAIN t.libs THEN Some(t.libs[libraryPath]) ELSE Null

\* The Library records of the tier (the order of readdir is not used by any
\* caller modelled here except through LibraryOrders).
getLibraries(t) == {t.libs[p] : p \in DOMAIN t.libs}

\* The paths of the document files whose document has identifier id; the
\* scan returns the first of them in directory order.
findDocumentFileById(t, id) == {p \in DOMAIN t.docs : t.docs[p].id = id}

UNKNOWN == <<"u", "n", "k", "n", "o", "w", "n">>

updateLibraryInfo(t, name, version, time) ==
  LET OrNew(found) ==
        IF found # Null THEN Get(found)
        ELSE [name |-> name, versions |-> << >>, source |-> UNKNOWN,
              lastScraped |-> time, projectSpecific |-> TRUE]
      Pushed(library) ==
        [library EXCEPT
           !.versions = IF SeqIncludes(@, version) THEN @ ELSE Append(@, version),
           !.lastScraped = time]
  IN [t EXCEPT !.libs = WriteFile(@, getLibraryPath(name),
                                  Pushed(OrNew(getLibrary(t, name))))]

\* Where a write operation meets an I/O failure: nowhere, at the removal of
\* a file, at the write of the document file, at the write of the library
\* file or at the removal of a directory of documents.
FailModes == {"none", "unlink", "doc", "lib", "rm"}

\* The tier after saveDocument and whether it threw.
saveDocument(t, doc, fail, time) ==
  IF fail = "doc" THEN [tier |-> t, threw |-> TRUE]
  ELSE
    LET Then(written) ==
          IF fail = "lib" THEN [tier |-> written, threw |-> TRUE]
          ELSE [tier |-> updateLibraryInfo(written, doc.library, doc.version, time),
                threw |-> FALSE]
    IN Then([t EXCEPT !.docs =
               WriteFile(@, getDocumentPath(doc.library, doc.version), doc)])

\* JavaScript's { ...existingDoc, ...updates }
Spread(existing, updates) ==
  [f \in DOMAIN existing \cup DOMAIN updates |->
     IF f \in DOMAIN updates THEN updates[f] ELSE existing[f]]

Truthy(str) == str # << >>

\* updateDocument on the file found for the identifier: the tier afterwards,
\* the returned value (Null when the catch block swallowed a failure) and
\* whether a step met an I/O failure.
updateDocument(t, filePath, updates, fail, time) ==
  LET existingDoc == t.docs[filePath]
      Moved ==
           ("library" \in DOMAIN updates /\ Truthy(updates.library)
              /\ updates.library # existingDoc.library)
        \/ ("version" \in DOMAIN updates /\ Truthy(updates.version)
              /\ updates.version # existingDoc.version)
      Saved(updatedDoc, saved) ==
        [tier |-> saved.tier, ret |-> IF saved.threw THEN Null ELSE Some(updatedDoc),
         failed |-> saved.threw]
      Write(updatedDoc) ==
        IF Moved THEN
          IF fail = "unlink" THEN [tier |-> t, ret |-> Null, failed |-> TRUE]
          ELSE Saved(updatedDoc,
                     saveDocument([t EXCEPT !.docs = Unlink(@, {filePath})],
                                  updatedDoc, fail, time))
        ELSE
          IF fail = "doc" THEN [tier |-> t, ret |-> Null, failed |-> TRUE]
          ELSE [tier |-> [t EXCEPT !.docs = WriteFile(@, filePath, updatedDoc)],
                ret |-> Some(updatedDoc), failed |-> FALSE]
  IN Write([Spread(existingDoc, updates) EXCEPT
              !.id = existingDoc.id, !.updatedAt = time])

deleteDocument(t, filePath, fail) ==
  IF fail = "unlink" THEN [tier |-> t, ret |-> FALSE, failed |-> TRUE]
  ELSE [tier |-> [t EXCEPT !.docs = Unlink(t.docs, {filePath})], ret |-> TRUE,
        failed |-> FALSE]

\* deleteLibrary: both removals swallow their failure (".catch(() => {})")
\* and the call returns true; failed says that a file that exists could not
\* be removed.
deleteLibrary(t, name, fail) ==
  [tier |->
     [docs |-> IF fail = "rm" THEN t.docs
               ELSE Unlink(t.docs, {p \in DOMAIN t.docs : p[1] = Safe(name)}),
      libs |-> IF fail = "unlink" THEN t.libs
               ELSE Unlink(t.libs, {getLibraryPath(name)})],
   ret |-> TRUE,
   failed |-> \/ fail = "unlink" /\ getLibraryPath(name) \in DOMAIN t.libs
              \/ fail = "rm" /\ \E p \in DOMAIN t.docs : p[1] = Safe(name)]

(***************************************************************************)
(* Built-in scorer of the store.  Scores are in hundredths: 0.4 is 40.     *)
(***************************************************************************)
HighlightPad == 50

ELLIPSIS == <<".", ".", ".">>

Max(a, b) == IF a >= b THEN a ELSE b
Min(a, b) == IF a <= b THEN a ELSE b

\* String.prototype.indexOf, 0-based, for a string that includes q.
IndexOf(s, q) ==
  CHOOSE i \in 0..(Len(s) - Len(q)) :
    /\ SubSeq(s, i + 1, i + Len(q)) = q
    /\ \A j \in 0..(i - 1) : SubSeq(s, j + 1, j + Len(q)) # q

\* String.prototype.substring(start, end), 0-based, end exclusive.
Substring(s, start, end) == SubSeq(s, start + 1, end)

OptIncludes(field, q) == field # Null /\ Includes(ToLower(Get(field)), q)

\* The search result of one document file, Null when nothing matches.
ScoreDocument(doc, query) ==
  LET queryLower == ToLower(query)
      titleMatch == OptIncludes(doc.metadata.title, queryLower)
      descMatch == OptIncludes(doc.metadata.description, queryLower)
      contentMatch == Includes(ToLower(doc.content), queryLower)
      libraryMatch == Includes(ToLower(doc.library), queryLower)
      urlMatch == Includes(ToLower(doc.url), queryLower)
      score == (IF titleMatch THEN 40 ELSE 0) + (IF descMatch THEN 20 ELSE 0)
             + (IF libraryMatch THEN 20 ELSE 0) + (IF contentMatch THEN 20 ELSE 0)
      index == IndexOf(ToLower(doc.content), queryLower)
      start == Max(0, index - HighlightPad)
      end == Min(Len(doc.content), index + Len(queryLower) + HighlightPad)
      highlights == IF contentMatch
                    THEN <<ELLIPSIS \o Substring(doc.content, start, end) \o ELLIPSIS>>
                    ELSE << >>
  IN IF titleMatch \/ descMatch \/ contentMatch \/ libraryMatch \/ urlMatch
     THEN Some([document |-> doc, score |-> score, highlights |-> highlights])
     ELSE Null

\* Array.prototype.sort((a, b) => b.score - a.score): a stable sort by
\* descending score.
RECURSIVE InsertByScore(_, _)
InsertByScore(sorted, r) ==
  IF Len(sorted) = 0 THEN <<r>>
  ELSE IF sorted[Len(sorted)].score >= r.score THEN Append(sorted, r)
  ELSE Append(InsertByScore(SubSeq(sorted, 1, Len(sorted) - 1), r),
              sorted[Len(sorted)])

RECURSIVE SortByScore(_)
SortByScore(results) ==
  IF Len(results) = 0 THEN << >>
  ELSE InsertByScore(SortByScore(SubSeq(results, 1, Len(results) - 1)),
                     results[Len(results)])

\* Array.prototype.slice(0, limit) for limit >= 0.
Slice(results, limit) == SubSeq(results, 1, Min(Len(results), limit))

\* The orders in which the two nested readdir loops can visit the document
\* files of a tier: library directories one after the other.
Orderings(S) ==
  {f \in [1..Cardinality(S) -> S] : \A i, j \in 1..Cardinality(S) : i # j => f[i] # f[j]}

ScanOrders(t) ==
  {o \in Orderings(DOMAIN t.docs) :
     \A i, j, k \in 1..Len(o) :
       (i < j /\ j < k /\ o[i][1] = o[k][1]) => o[j][1] = o[i][1]}

RECURSIVE ScanResults(_, _, _)
ScanResults(t, order, query) ==
  IF Len(order) = 0 THEN << >>
  ELSE ScoreDocument(t.docs[order[1]], query) \o ScanResults(t, Tail(order), query)

\* DocFileStorage.searchDocuments with the files visited in the given order.
StoreSearchDocuments(t, order, query, limit) ==
  Slice(SortByScore(ScanResults(t, order, query)), limit)

(***************************************************************************)
(* Dual-Tier Cache Coordinator (dual-storage.ts).                          *)
(***************************************************************************)
CURRENT == <<"c", "u", "r", "r", "e", "n", "t">>

\* Array.prototype.find(lib => lib.name === library) on getLibraries().
FindLibrary(t, library) ==
  LET named == {lib \in getLibraries(t) : lib.name = library}
  IN IF named = {} THEN Null ELSE Some(CHOOSE lib \in named : TRUE)

\* Variant: the copy is skipped altogether.
copyToProjectStorageSkipped(p, doc, fail, time) ==
  [tier |-> p, threw |-> FALSE]

\* Variant: the copy is saved without looking for an existing document.
copyToProjectStorageAlways(p, doc, fail, time) ==
  saveDocument(p, [doc EXCEPT !.projectId = Some(CURRENT)], fail, time)

\* The project tier afterwards and whether the copy threw.
copyToProjectStorage(p, doc, fail, time) ==
  IF StoreGetDocument(p, doc.library, doc.version) = Null
  THEN saveDocument(p, [doc EXCEPT !.projectId = Some(CURRENT)], fail, time)
  ELSE [tier |-> p, threw |-> FALSE]

\* "await this.copyToProjectStorage(globalDoc); return globalDoc;"
ReturnCopied(p, globalDoc, fail, time) ==
  LET Return(copied) ==
        [project |-> copied.tier,
         ret |-> IF copied.threw THEN Null ELSE Some(globalDoc),
         threw |-> copied.threw]
  IN Return(copyToProjectStorage(p, globalDoc, fail, time))

\* The document of tier t at the best version that its Library record named
\* library lists for the request (steps 2 and 4 of getDocument).
CompatibleDocument(t, library, version) ==
  LET AtBest(bestVersion) ==
        IF bestVersion # Null /\ Truthy(Get(bestVersion))
        THEN StoreGetDocument(t, library, Get(bestVersion)) ELSE Null
      OfLibrary(lib) ==
        IF lib # Null /\ Len(Get(lib).versions) > 0
        THEN AtBest(findBestVersion(Get(lib).versions, version)) ELSE Null
  IN OfLibrary(FindLibrary(t, library))

Returned(p, doc) == [project |-> p, ret |-> doc, threw |-> FALSE]

\* Variant: the exact global match is tried before the compatible project
\* version.
getDocumentGlobalFirst(p, g, library, version, fail, time) ==
  LET Step4(globalDoc) ==
        IF globalDoc # Null THEN ReturnCopied(p, Get(globalDoc), fail, time)
        ELSE Returned(p, Null)
      Step3(projectDoc) ==
        IF projectDoc # Null THEN Returned(p, projectDoc)
        ELSE Step4(CompatibleDocument(g, library, version))
      Step2(globalDoc) ==
        IF globalDoc # Null THEN ReturnCopied(p, Get(globalDoc), fail, time)
        ELSE Step3(CompatibleDocument(p, library, version))
      Step1(projectDoc) ==
        IF projectDoc # Null THEN Returned(p, projectDoc)
        ELSE Step2(StoreGetDocument(g, library, version))
  IN Step1(StoreGetDocument(p, library, version))

\* DualDocStorage.getDocument: the project tier afterwards, the returned
\* value and whether the call threw instead of returning.
getDocument(p, g, library, version, fail, time) ==
  LET Step4(globalDoc) ==
        IF globalDoc # Null THEN ReturnCopied(p, Get(globalDoc), fail, time)
        ELSE Returned(p, Null)
      Step3(globalDoc) ==
        IF globalDoc # Null THEN ReturnCopied(p, Get(globalDoc), fail, time)
        ELSE Step4(CompatibleDocument(g, library, version))
      Step2(projectDoc) ==
        IF projectDoc # Null THEN Returned(p, projectDoc)
        ELSE Step3(StoreGetDocument(g, library, version))
      Step1(projectDoc) ==
        IF projectDoc # Null THEN Returned(p, projectDoc)
        ELSE Step2(CompatibleDocument(p, library, version))
  IN Step1(StoreGetDocument(p, library, version))

ResultIds(results) == {results[i].document.id : i \in 1..Len(results)}

Discount(r) == [r EXCEPT !.score = (r.score * 9) \div 10]

\* Variant: global results are merged without looking at the identifiers of
\* the project results.
searchDocumentsUndeduped(p, g, pOrder, gOrder, query, limit) ==
  LET Discounted(kept) == [i \in 1..Len(kept) |-> Discount(kept[i])]
  IN Slice(SortByScore(StoreSearchDocuments(p, pOrder, query, limit)
                         \o Discounted(StoreSearchDocuments(g, gOrder, query, limit))),
           limit)

\* DualDocStorage.searchDocuments.
searchDocuments(p, g, pOrder, gOrder, query, limit) ==
  LET Discounted(kept) == [i \in 1..Len(kept) |-> Discount(kept[i])]
      Merge(projectResults, globalResults) ==
        projectResults \o
          Discounted(SelectSeq(globalResults,
                               LAMBDA r : r.document.id \notin ResultIds(projectResults)))
  IN Slice(SortByScore(Merge(StoreSearchDocuments(p, pOrder, query, limit),
                             StoreSearchDocuments(g, gOrder, query, limit))), limit)

\* DualDocStorage.syncWithGlobal and the directed sync iterate over the
\* (library name, version) pairs listed by the Library records of the source.
RECURSIVE SetToSeq(_)
SetToSeq(S) ==
  IF S = {} THEN << >>
  ELSE LET x == CHOOSE y \in S : TRUE IN <<x>> \o SetToSeq(S \ {x})

RECURSIVE ListedPairs(_, _, _)
ListedPairs(libraries, library, version) ==
  IF Len(libraries) = 0 THEN << >>
  ELSE LET lib == libraries[1]
           versionsToSync == IF version # Null /\ Truthy(Get(version))
                                /\ library # Null /\ Truthy(Get(library))
                             THEN <<Get(version)>> ELSE lib.versions
       IN [i \in 1..Len(versionsToSync) |-> <<lib.name, versionsToSync[i]>>]
          \o ListedPairs(Tail(libraries), library, version)

LibrariesToSync(t, library) ==
  SetToSeq(IF library # Null /\ Truthy(Get(library))
           THEN {lib \in getLibraries(t) : lib.name = Get(library)}
           ELSE getLibraries(t))

\* The failure, if any, that the save of the document at a path meets.
FailOf(fails, path) == IF path \in DOMAIN fails THEN fails[path] ELSE "none"

Counted(acc, tier, threw) ==
  IF threw THEN [acc EXCEPT !.dst = tier, !.errors = @ + 1]
  ELSE [acc EXCEPT !.dst = tier, !.synced = @ + 1]

NoSync(dst) == [dst |-> dst, synced |-> 0, errors |-> 0]

\* Variant: nothing more is pushed once a push has failed.
SyncWithGlobalStepAborting(p, acc, pair, fails, time) ==
  LET Save(saved) == Counted(acc, saved.tier, saved.threw)
      Push(projectDoc) ==
        IF projectDoc = Null \/ acc.errors > 0 THEN acc
        ELSE Save(saveDocument(acc.dst, Get(projectDoc),
                               FailOf(fails, getDocumentPath(pair[1], pair[2])), time))
  IN Push(StoreGetDocument(p, pair[1], pair[2]))

\* The body of the two loops of syncWithGlobal for one listed pair.
SyncWithGlobalStep(p, acc, pair, fails, time) ==
  LET Save(saved) == Counted(acc, saved.tier, saved.threw)
      Push(projectDoc) ==
        IF projectDoc = Null THEN acc
        ELSE Save(saveDocument(acc.dst, Get(projectDoc),
                               FailOf(fails, getDocumentPath(pair[1], pair[2])), time))
  IN Push(StoreGetDocument(p, pair[1], pair[2]))

RECURSIVE SyncWithGlobalLoop(_, _, _, _, _)
SyncWithGlobalLoop(p, acc, pairs, fails, time) ==
  IF Len(pairs) = 0 THEN acc
  ELSE SyncWithGlobalLoop(p, SyncWithGlobalStep(p, acc, pairs[1], fails, time),
                          Tail(pairs), fails, time)

\* DualDocStorage.syncWithGlobal: the global tier afterwards (dst) and the
\* two counts.
syncWithGlobal(p, g, fails, time) ==
  SyncWithGlobalLoop(p, NoSync(g), ListedPairs(LibrariesToSync(p, Null), Null, Null),
                     fails, time)

\* Variant: the source also wins when it is exactly as old as the
\* destination.
SyncStepNotStrict(src, acc, pair, mark, fails, time) ==
  LET Save(saved) == Counted(acc, saved.tier, saved.threw)
      Copy(doc) == IF mark THEN [doc EXCEPT !.projectId = Some(CURRENT)] ELSE doc
      Transfer(doc, dstDoc) ==
        IF doc = Null THEN acc
        ELSE IF dstDoc = Null \/ Get(doc).updatedAt >= Get(dstDoc).updatedAt
          THEN Save(saveDocument(acc.dst, Copy(Get(doc)),
                                 FailOf(fails, getDocumentPath(pair[1], pair[2])), time))
          ELSE acc
  IN Transfer(StoreGetDocument(src, pair[1], pair[2]),
              StoreGetDocument(acc.dst, pair[1], pair[2]))

\* The body of the loops of the directed sync for one listed pair; mark says
\* whether the copy is marked with projectId 'current'.
SyncStep(src, acc, pair, mark, fails, time) ==
  LET Save(saved) == Counted(acc, saved.tier, saved.threw)
      Copy(doc) == IF mark THEN [doc EXCEPT !.projectId = Some(CURRENT)] ELSE doc
      Transfer(doc, dstDoc) ==
        IF doc = Null THEN acc
        ELSE IF dstDoc = Null \/ Get(doc).updatedAt > Get(dstDoc).updatedAt
          THEN Save(saveDocument(acc.dst, Copy(Get(doc)),
                                 FailOf(fails, getDocumentPath(pair[1], pair[2])), time))
          ELSE acc
  IN Transfer(StoreGetDocument(src, pair[1], pair[2]),
              StoreGetDocument(acc.dst, pair[1], pair[2]))

RECURSIVE SyncPass(_, _, _, _, _, _)
SyncPass(src, acc, pairs, mark, fails, time) ==
  IF Len(pairs) = 0 THEN acc
  ELSE SyncPass(src, SyncStep(src, acc, pairs[1], mark, fails, time),
                Tail(pairs), mark, fails, time)

syncToGlobal(p, g, library, version, fails, time) ==
  SyncPass(p, NoSync(g), ListedPairs(LibrariesToSync(p, library), library, version),
           FALSE, fails, time)

syncFromGlobal(p, g, library, version, fails, time) ==
  SyncPass(g, NoSync(p), ListedPairs(LibrariesToSync(g, library), library, version),
           TRUE, fails, time)

Directions == {"to-global", "from-global", "bidirectional"}

\* SyncDocsTool.execute: both tiers afterwards and the aggregate counts.
execute(p, g, direction, library, version, fails, time) ==
  LET Result(up, down) ==
        [project |-> down.dst, global |-> up.dst,
         synced |-> up.synced + down.synced, errors |-> up.errors + down.errors,
         success |-> (up.errors + down.errors = 0)]
      Down(up) ==
        Result(up, IF direction \in {"from-global", "bidirectional"}
                   THEN syncFromGlobal(p, up.dst, library, version, fails, time)
                   ELSE NoSync(p))
  IN Down(IF direction \in {"to-global", "bidirectional"}
          THEN syncToGlobal(p, g, library, version, fails, time)
          ELSE NoSync(g))

\* Date.prototype.toISOString of the clock values the model uses: one
\* character per instant.
FormatTime(time) == <<<<"0", "1", "2", "3", "4", "5", "6", "7", "8", "9">>[time + 1]>>

LAST_UPDATED == <<" ", "(", "l", "a", "s", "t", " ", "u", "p", "d", "a", "t", "e", "d",
                  ":", " ">>

\* `${library.name} (last updated: ${library.lastScraped})`
OutdatedEntry(library) ==
  library.name \o LAST_UPDATED \o FormatTime(library.lastScraped) \o <<")">>

\* Variant: a library is flagged as soon as its age reaches maxAge.
updateOutdatedInclusive(p, time, maxAge) ==
  LET Flagged(libraries) ==
        SelectSeq(libraries, LAMBDA library : time - library.lastScraped >= maxAge)
      Entries(flagged) == [i \in 1..Len(flagged) |-> OutdatedEntry(flagged[i])]
  IN Entries(Flagged(SetToSeq(getLibraries(p))))

\* DualDocStorage.updateOutdated: the list of descriptions it returns.
updateOutdated(p, time, maxAge) ==
  LET Flagged(libraries) ==
        SelectSeq(libraries, LAMBDA library : time - library.lastScraped > maxAge)
      Entries(flagged) == [i \in 1..Len(flagged) |-> OutdatedEntry(flagged[i])]
  IN Entries(Flagged(SetToSeq(getLibraries(p))))

(***************************************************************************)
(* Inputs of the operations.                                               *)
(***************************************************************************)
\* What the scraper returns for a URL: content and metadata.
PageHooks ==
  [url |-> <<"h">>, content |-> <<"U", "s", "e", " ", "R", "e", "a", "c", "t">>,
   title |-> Some(<<"R", "e", "a", "c", "t">>), description |-> Null]

Tiers == {"project", "global"}

(***************************************************************************)
(* State: the two tiers, the clock, the next fresh identifier and the      *)
(* last operation with its arguments and its result.                       *)
(***************************************************************************)
TierOf(name) == IF name = "project" THEN project ELSE global

SetTier(name, t) ==
  /\ project' = IF name = "project" THEN t ELSE project
  /\ global' = IF name = "global" THEN t ELSE global

Init ==
  /\ project = EmptyTier
  /\ global = EmptyTier
  /\ now = 0
  /\ nextId = 1
  /\ last = [op |-> "init"]

\* Time passes between two operations.
Tick ==
  /\ now < MaxTime
  /\ now' = now + 1
  /\ last' = [op |-> "tick"]
  /\ UNCHANGED <<project, global, nextId>>

\* scrape_docs: the scraped page becomes a new document of the chosen tier.
ScrapeDocsOf(libraries, versions, pages, targets, failModes) ==
  \E library \in libraries, version \in versions, page \in pages,
     projectSpecific \in targets, fail \in failModes :
    LET document == [id |-> nextId, library |-> library, version |-> version,
                     url |-> page.url, content |-> page.content,
                     metadata |-> [title |-> page.title,
                                   description |-> page.description,
                                   source |-> <<"w", "e", "b">>],
                     projectId |-> IF projectSpecific THEN Some(CURRENT) ELSE Null,
                     createdAt |-> now, updatedAt |-> now]
        target == IF projectSpecific THEN "project" ELSE "global"
    IN \E saved \in {saveDocument(TierOf(target), document, fail, now)} :
         /\ nextId <= MaxDocs
         /\ nextId' = nextId + 1
         /\ SetTier(target, saved.tier)
         /\ last' = [op |-> "scrape_docs", tier |-> target, doc |-> document,
                     isError |-> saved.threw, failed |-> saved.threw,
                     threw |-> saved.threw]
         /\ UNCHANGED now

UpdateDocumentOf(names, partials, failModes) ==
  \E name \in names, updates \in partials, fail \in failModes :
    \E filePath \in DOMAIN TierOf(name).docs :
      LET id == TierOf(name).docs[filePath].id
      IN \E done \in {updateDocument(TierOf(name), filePath, updates, fail, now)} :
         /\ filePath \in findDocumentFileById(TierOf(name), id)
         /\ SetTier(name, done.tier)
         /\ last' = [op |-> "updateDocument", tier |-> name, id |-> id,
                     path |-> filePath, updates |-> updates, ret |-> done.ret,
                     failed |-> done.failed, threw |-> FALSE]
         /\ UNCHANGED <<now, nextId>>

DeleteDocumentOf(names, failModes) ==
  \E name \in names, fail \in failModes :
    \E filePath \in DOMAIN TierOf(name).docs :
      LET id == TierOf(name).docs[filePath].id
      IN \E done \in {deleteDocument(TierOf(name), filePath, fail)} :
         /\ filePath \in findDocumentFileById(TierOf(name), id)
         /\ SetTier(name, done.tier)
         /\ last' = [op |-> "deleteDocument", tier |-> name, id |-> id,
                     path |-> filePath, ret |-> done.ret,
                     failed |-> done.failed, threw |-> FALSE]
         /\ UNCHANGED <<now, nextId>>

DeleteLibraryOf(names, libraries, failModes) ==
  \E name \in names, library \in libraries, fail \in failModes :
    \E done \in {deleteLibrary(TierOf(name), library, fail)} :
      /\ SetTier(name, done.tier)
      /\ last' = [op |-> "deleteLibrary", tier |-> name, library |-> library,
                  ret |-> done.ret, failed |-> done.failed, threw |-> FALSE]
      /\ UNCHANGED <<now, nextId>>

GetDocumentOf(libraries, versions, failModes) ==
  \E library \in libraries, version \in versions, fail \in failModes :
    \E got \in {getDocument(project, global, library, version, fail, now)} :
       /\ project' = got.project
       /\ last' = [op |-> "getDocument", library |-> library, version |-> version,
                   ret |-> got.ret, threw |-> got.threw]
       /\ UNCHANGED <<global, now, nextId>>

SearchDocumentsOf(queries, limits) ==
  \E query \in queries, limit \in limits :
    \E pOrder \in ScanOrders(project), gOrder \in ScanOrders(global) :
      /\ last' = [op |-> "searchDocuments", query |-> query, limit |-> limit,
                  pOrder |-> pOrder, gOrder |-> gOrder,
                  ret |-> searchDocuments(project, global, pOrder, gOrder, query, limit)]
      /\ UNCHANGED <<project, global, now, nextId>>

\* For each document a sync in the direction reads, the failure that the
\* write of its copy meets.
FailsOf(direction, failModes) ==
  [(IF direction # "from-global" THEN DOMAIN project.docs ELSE {})
     \cup (IF direction # "to-global" THEN DOMAIN global.docs ELSE {}) -> failModes]

SyncWithGlobalOf(failModes) ==
  \E fails \in FailsOf("to-global", failModes) :
    \E done \in {syncWithGlobal(project, global, fails, now)} :
       /\ global' = done.dst
       /\ last' = [op |-> "syncWithGlobal", synced |-> done.synced,
                   errors |-> done.errors, fails |-> fails,
                   again |-> (last.op = "syncWithGlobal" /\ last.errors = 0)]
       /\ UNCHANGED <<project, now, nextId>>

SyncDocsOf(directions, filters, failModes) ==
  \E direction \in directions, filter \in filters :
   \E fails \in FailsOf(direction, failModes) :
    \E done \in {execute(project, global, direction, filter[1], filter[2], fails, now)} :
       /\ project' = done.project
       /\ global' = done.global
       /\ last' = [op |-> "sync_docs", direction |-> direction, library |-> filter[1],
                   version |-> filter[2], synced |-> done.synced, errors |-> done.errors,
                   success |-> done.success, fails |-> fails]
       /\ UNCHANGED <<now, nextId>>

(***************************************************************************)
(* Lookups through the coordinator: documents are scraped into either      *)
(* tier, removed one by one, and read with getDocument.                    *)
(***************************************************************************)
GetVersions == {V18_0_0, V18_2_0, LATEST}
GetRequests == {CARET_18_0_0, LATEST}

GetScrape == ScrapeDocsOf({REACT}, GetVersions, {PageHooks}, BOOLEAN, {"none", "lib"})
GetDelete == DeleteDocumentOf(Tiers, {"none"})
GetGet == GetDocumentOf({REACT}, GetRequests, {"none", "doc", "lib"})

NextGet == GetScrape \/ GetDelete \/ GetGet

SpecGet == Init /\ [][NextGet]_vars

(***************************************************************************)
(* Resolution order of the coordinator's getDocument.                      *)
(***************************************************************************)
\* The versions listed by the Library record named library, if any.
ListedVersions(t, library) ==
  LET lib == FindLibrary(t, library)
  IN IF lib = Null THEN << >> ELSE Get(lib).versions

\* The document of tier t at the best version for the request, if any.
BestDocument(t, library, requested) ==
  LET best == findBestVersion(ListedVersions(t, library), requested)
  IN IF best = Null THEN Null ELSE StoreGetDocument(t, library, Get(best))

ResolutionSteps(p, g, library, requested) ==
  <<StoreGetDocument(p, library, requested), BestDocument(p, library, requested),
    StoreGetDocument(g, library, requested), BestDocument(g, library, requested)>>

FirstHit(steps) ==
  IF \A i \in 1..Len(steps) : steps[i] = Null THEN Null
  ELSE steps[CHOOSE i \in 1..Len(steps) :
               steps[i] # Null /\ \A j \in 1..(i - 1) : steps[j] = Null]

IsGet(l) == l.op = "getDocument"

\* C1: a getDocument call that returns, returns the document of the first of
\* the four steps (project exact, project best compatible, global exact,
\* global best compatible) that finds one, and null when none does.
C1_ResolutionOrder ==
  [][(IsGet(last') /\ ~last'.threw) =>
       last'.ret = FirstHit(ResolutionSteps(project, global,
                                            last'.library, last'.version))]_vars

\* C1 witness: a compatible project-tier version was returned although the
\* global tier holds a document at exactly the requested address.
C1_Witness ==
  /\ IsGet(last) /\ ~last.threw /\ last.ret # Null
  /\ StoreGetDocument(project, last.library, last.version) = Null
  /\ StoreGetDocument(global, last.library, last.version) # Null
  /\ last.ret = BestDocument(project, last.library, last.version)
  /\ Get(last.ret).version # last.version

ProjectMisses(p, library, requested) ==
  /\ StoreGetDocument(p, library, requested) = Null
  /\ BestDocument(p, library, requested) = Null

\* C2: when getDocument returns a document resolved from the global tier,
\* the project tier holds a document at the resolved (library, version) on
\* return.
C2_PromotedOnReturn ==
  [][(IsGet(last') /\ ~last'.threw /\ last'.ret # Null
        /\ ProjectMisses(project, last'.library, last'.version)) =>
       StoreGetDocument(project', Get(last'.ret).library,
                        Get(last'.ret).version) # Null]_vars

\* C2 witness: 18.2.0 and 18.0.0 only in the global tier, ^18.0.0 was
\* requested, the 18.2.0 document was returned and its copy is the only
\* document of the project tier.
C2_Witness ==
  /\ IsGet(last) /\ ~last.threw /\ last.version = CARET_18_0_0
  /\ StoreGetDocument(global, REACT, V18_0_0) # Null
  /\ last.ret # Null /\ last.ret = StoreGetDocument(global, REACT, V18_2_0)
  /\ DOMAIN project.docs = {getDocumentPath(REACT, V18_2_0)}
  /\ StoreGetDocument(project, REACT, V18_2_0) =
       Some([Get(last.ret) EXCEPT !.projectId = Some(CURRENT)])

\* C3: getDocument, and so the promotion it runs, changes no document the
\* project tier already holds, and a second identical call leaves the
\* project tier as the first one left it.
C3_PromotionNeverOverwrites ==
  [][IsGet(last') =>
       /\ \A path \in DOMAIN project.docs :
            path \in DOMAIN project'.docs /\ project'.docs[path] = project.docs[path]
       /\ (IsGet(last) /\ ~last.threw /\ last'.library = last.library
             /\ last'.version = last.version) => project'.docs = project.docs]_vars

\* C3 witness: a document resolved from the global tier was returned while
\* the project tier holds another document at the resolved address.
C3_Witness ==
  /\ IsGet(last) /\ ~last.threw /\ last.ret # Null
  /\ \E path \in DOMAIN global.docs : global.docs[path] = Get(last.ret)
  /\ LET kept == StoreGetDocument(project, Get(last.ret).library, Get(last.ret).version)
     IN kept # Null /\ Get(kept).id # Get(last.ret).id

\* C4: when the global tier holds the requested document and the project
\* tier has no document for the request, getDocument returns the global
\* document, also when the copy into the project tier fails.
C4_CopyFailureDoesNotFailRead ==
  [][(IsGet(last') /\ ProjectMisses(project, last'.library, last'.version)
        /\ StoreGetDocument(global, last'.library, last'.version) # Null) =>
       (~last'.threw
          /\ last'.ret = StoreGetDocument(global, last'.library, last'.version))]_vars

(***************************************************************************)
(* Writes and deletes of one tier's store: documents are scraped into      *)
(* either tier, edited or moved to another version, removed one by one,    *)
(* and whole libraries are removed.  No write fails.                       *)
(***************************************************************************)
StoreVersions == {V18_0_0, V18_2_0}
NewContent == <<"H", "o", "o", "k", "s">>
StorePartials == {[version |-> V18_2_0], [content |-> NewContent]}

StoreScrape == ScrapeDocsOf({REACT, VUE}, StoreVersions, {PageHooks}, BOOLEAN, {"none"})
StoreUpdate == UpdateDocumentOf(Tiers, StorePartials, {"none"})
StoreDelete == DeleteDocumentOf(Tiers, {"none"})
StoreDeleteLibrary == DeleteLibraryOf(Tiers, {REACT}, {"none"})

NextStore == StoreScrape \/ StoreUpdate \/ StoreDelete \/ StoreDeleteLibrary

SpecStore == Init /\ [][NextStore]_vars

\* The versions of the documents of tier t that belong to the library.
StoredVersions(t, library) ==
  {t.docs[path].version : path \in {q \in DOMAIN t.docs : t.docs[q].library = library}}

VersionSetExact(t) ==
  /\ \A key \in DOMAIN t.libs :
       {t.libs[key].versions[i] : i \in 1..Len(t.libs[key].versions)} =
         StoredVersions(t, t.libs[key].name)
  /\ \A path \in DOMAIN t.docs :
       LET lib == getLibrary(t, t.docs[path].library)
       IN lib # Null /\ SeqIncludes(Get(lib).versions, t.docs[path].version)

\* C5: in each tier, after any sequence of saveDocument, updateDocument,
\* deleteDocument and deleteLibrary calls, every Library record lists
\* exactly the versions for which the tier holds a document of that library.
C5_VersionSetExact ==
  \A name \in Tiers : VersionSetExact(TierOf(name))

(***************************************************************************)
(* Synchronisation of the two tiers: documents are scraped into either     *)
(* tier at different times and pushed or pulled by syncWithGlobal and      *)
(* sync_docs, where the write of any document file may fail.               *)
(***************************************************************************)
SyncFilters == {<<Null, Null>>}
SyncFailModes == {"none", "doc"}

\* Time passes between two scrapes.
SyncTick == nextId <= MaxDocs /\ Tick
SyncScrape == ScrapeDocsOf({REACT}, StoreVersions, {PageHooks}, BOOLEAN, {"none"})
SyncSyncWithGlobal == SyncWithGlobalOf(SyncFailModes)
SyncDirections == {"to-global", "from-global"}
SyncSyncDocs == SyncDocsOf(SyncDirections, SyncFilters, SyncFailModes)

NextSync == SyncTick \/ SyncScrape \/ SyncSyncWithGlobal \/ SyncSyncDocs

SpecSync == Init /\ [][NextSync]_vars

IsDirected(l, direction) == l.op = "sync_docs" /\ l.direction = direction

\* Every document of the destination that differs after the sync from what
\* it was before is one the destination lacked or held in an older copy
\* than the source's, and no document of the destination is gone.
LastWriterWins(src, dst, after) ==
  /\ DOMAIN dst.docs \subseteq DOMAIN after.docs
  /\ \A path \in DOMAIN after.docs :
       (path \notin DOMAIN dst.docs \/ after.docs[path] # dst.docs[path]) =>
         /\ path \in DOMAIN src.docs
         /\ \/ path \notin DOMAIN dst.docs
            \/ src.docs[path].updatedAt > dst.docs[path].updatedAt

\* C6: a directed sync (to-global, from-global) overwrites a document of the
\* destination only when the destination has no document at that address or
\* the source's updatedAt is strictly later; a destination copy that is as
\* new or newer is left unchanged.
C6_LastWriterWins ==
  [][/\ IsDirected(last', "to-global") => LastWriterWins(project, global, global')
     /\ IsDirected(last', "from-global") => LastWriterWins(global, project, project')]_vars

\* C6 witness: after a to-global sync without failures the two tiers hold
\* different documents with the same updatedAt at one address: the
\* destination's copy, as new as the source's, was left unchanged.
C6_Witness ==
  /\ IsDirected(last, "to-global") /\ last.library = Null /\ last.errors = 0
  /\ \A path \in DOMAIN last.fails : last.fails[path] = "none"
  /\ \E path \in DOMAIN project.docs \cap DOMAIN global.docs :
       /\ project.docs[path].id # global.docs[path].id
       /\ project.docs[path].updatedAt = global.docs[path].updatedAt

\* The addresses a sync of the source tier t lists under the filter.
ListedPaths(t, library, version) ==
  UNION {{getDocumentPath(lib.name, v) :
            v \in IF library # Null /\ version # Null THEN {Get(version)}
                  ELSE {lib.versions[i] : i \in 1..Len(lib.versions)}} :
         lib \in {l \in getLibraries(t) : library = Null \/ l.name = Get(library)}}

\* The transfers a directed sync owes: listed documents of the source that
\* the destination lacks or holds in an older copy.
Owed(src, dst, library, version) ==
  {path \in ListedPaths(src, library, version) \cap DOMAIN src.docs :
     \/ path \notin DOMAIN dst.docs
     \/ src.docs[path].updatedAt > dst.docs[path].updatedAt}

Failing(paths, fails) == {path \in paths : FailOf(fails, path) # "none"}

\* One error per failing transfer, one success per other transfer, and every
\* other transfer is in the destination afterwards.
BatchCompleted(l, src, owed, after, mark) ==
  /\ l.errors = Cardinality(Failing(owed, l.fails))
  /\ l.synced = Cardinality(owed \ Failing(owed, l.fails))
  /\ \A path \in owed \ Failing(owed, l.fails) :
       /\ path \in DOMAIN after.docs
       /\ after.docs[path] =
            IF mark THEN [src.docs[path] EXCEPT !.projectId = Some(CURRENT)]
            ELSE src.docs[path]

\* C7: in syncWithGlobal and in a directed sync, a failing transfer counts
\* as one error and stops nothing: every other listed document is
\* transferred and counted, and the operation returns both counts.
C7_ContinueOnError ==
  [][/\ last'.op = "syncWithGlobal" =>
          BatchCompleted(last', project,
                         ListedPaths(project, Null, Null) \cap DOMAIN project.docs,
                         global', FALSE)
     /\ IsDirected(last', "to-global") =>
          BatchCompleted(last', project,
                         Owed(project, global, last'.library, last'.version),
                         global', FALSE)
     /\ IsDirected(last', "from-global") =>
          BatchCompleted(last', global,
                         Owed(global, project, last'.library, last'.version),
                         project', TRUE)]_vars

\* C7 witness: syncWithGlobal met a failure on the first document it listed
\* and still pushed the second one.
C7_Witness ==
  /\ last.op = "syncWithGlobal" /\ last.errors = 1 /\ last.synced = 1
  /\ LET pairs == ListedPairs(LibrariesToSync(project, Null), Null, Null)
     IN /\ Len(pairs) = 2
        /\ FailOf(last.fails, getDocumentPath(pairs[1][1], pairs[1][2])) # "none"
        /\ StoreGetDocument(global, pairs[1][1], pairs[1][2]) = Null
        /\ StoreGetDocument(global, pairs[2][1], pairs[2][2]) =
             StoreGetDocument(project, pairs[2][1], pairs[2][2])
        /\ StoreGetDocument(global, pairs[2][1], pairs[2][2]) # Null

\* C8: a syncWithGlobal that directly follows a syncWithGlobal without
\* errors reports a synced count of 0.
C8_SecondSyncIsEmpty ==
  (last.op = "syncWithGlobal" /\ last.again) => last.synced = 0

(***************************************************************************)
(* Search across the two tiers: documents are scraped into either tier,    *)
(* copied to the other tier by sync_docs, edited in place, and searched    *)
(* with every order in which the directories can be read.                  *)
(***************************************************************************)
QueryReact == <<"r", "e", "a", "c", "t">>
SearchLimits == 1..MaxLimit

SearchScrape == ScrapeDocsOf({REACT}, StoreVersions, {PageHooks}, BOOLEAN, {"none"})
SearchCopy == SyncDocsOf(SyncDirections, SyncFilters, {"none"})
SearchUpdate == UpdateDocumentOf(Tiers, {[content |-> NewContent]}, {"none"})
SearchSearch == SearchDocumentsOf({QueryReact}, SearchLimits)

NextSearch == SearchScrape \/ SearchCopy \/ SearchUpdate \/ SearchSearch

SpecSearch == Init /\ [][NextSearch]_vars

IsSearch(l) == l.op = "searchDocuments"

Identical(a, b) == a.id = b.id /\ a.content = b.content

\* The positions of the results that carry the identifier.
Hits(results, id) == {i \in 1..Len(results) : results[i].document.id = id}

\* C9: a document held with the same identifier and content by both tiers
\* appears at most once in the results of searchDocuments, and where it
\* appears it has the score of the project tier, not the discounted one.
C9_IdenticalOnceAtProjectScore ==
  IsSearch(last) =>
    \A pp \in DOMAIN project.docs, gp \in DOMAIN global.docs :
      Identical(project.docs[pp], global.docs[gp]) =>
        /\ Cardinality(Hits(last.ret, project.docs[pp].id)) <= 1
        /\ \A i \in Hits(last.ret, project.docs[pp].id) :
             /\ ScoreDocument(project.docs[pp], last.query) # Null
             /\ last.ret[i].score =
                  Get(ScoreDocument(project.docs[pp], last.query)).score

\* C9 witness: a search with limit 2 returned two results, a document held
\* identically by both tiers, once and at its project-tier score, and a
\* document of the global tier only, discounted.
C9_Witness ==
  /\ IsSearch(last) /\ last.limit = 2 /\ Len(last.ret) = 2
  /\ \E pp \in DOMAIN project.docs, gp \in DOMAIN global.docs :
       /\ Identical(project.docs[pp], global.docs[gp])
       /\ Cardinality(Hits(last.ret, project.docs[pp].id)) = 1
       /\ \A i \in Hits(last.ret, project.docs[pp].id) :
            /\ last.ret[i].score > 0
            /\ last.ret[i].score = Get(ScoreDocument(project.docs[pp], last.query)).score
  /\ \E gp \in DOMAIN global.docs :
       /\ \A pp \in DOMAIN project.docs : project.docs[pp].id # global.docs[gp].id
       /\ \E i \in 1..2 : /\ last.ret[i].document = global.docs[gp]
                          /\ last.ret[i].score =
                               Discount(Get(ScoreDocument(global.docs[gp], last.query))).score

\* The reference merge: every matching document of the project tier, then
\* every matching document of the global tier whose identifier no matching
\* project document has, discounted; sorted by descending score, first limit.
ReferenceSearch(p, g, pOrder, gOrder, query, limit) ==
  LET Discounted(kept) == [i \in 1..Len(kept) |-> Discount(kept[i])]
      Union(projectAll, globalAll) ==
        projectAll \o
          Discounted(SelectSeq(globalAll,
                               LAMBDA r : r.document.id \notin ResultIds(projectAll)))
  IN Slice(SortByScore(Union(ScanResults(p, pOrder, query),
                             ScanResults(g, gOrder, query))), limit)

Scored(results) ==
  {<<results[i].document, results[i].score>> : i \in 1..Len(results)}

\* C10: searchDocuments returns the same scored results as the reference
\* merge of all matching documents of both tiers, at most limit of them, in
\* non-increasing score order.
C10_SearchEqualsReference ==
  IsSearch(last) =>
    /\ Scored(last.ret) =
         Scored(ReferenceSearch(project, global, last.pOrder, last.gOrder,
                                last.query, last.limit))
    /\ Len(last.ret) <= last.limit
    /\ \A i \in 1..(Len(last.ret) - 1) : last.ret[i].score >= last.ret[i + 1].score

(***************************************************************************)
(* Writes of one tier's store under I/O failures: documents are saved,     *)
(* edited, moved, removed, and libraries removed, where any file           *)
(* operation of a call may fail.                                           *)
(***************************************************************************)
WriteLibraries == {SCOPED}
OtherId == 9
OtherCreatedAt == 1
WritePartials ==
  {[version |-> V18_2_0], [content |-> NewContent],
   [id |-> OtherId, createdAt |-> OtherCreatedAt]}

WriteSave ==
  ScrapeDocsOf(WriteLibraries, StoreVersions, {PageHooks}, {TRUE}, {"none", "doc", "lib"})
WriteUpdate ==
  UpdateDocumentOf({"project"}, WritePartials, {"none", "unlink", "doc", "lib"})
WriteDelete == DeleteDocumentOf({"project"}, {"none", "unlink"})
WriteDeleteLibrary ==
  DeleteLibraryOf({"project"}, WriteLibraries, {"none", "unlink", "rm"})

NextWrite == WriteSave \/ WriteUpdate \/ WriteDelete \/ WriteDeleteLibrary

SpecWrite == Init /\ [][NextWrite]_vars

\* C11: after deleteLibrary(name) on a tier, getLibrary(name) is null and
\* getDocument(name, v) is null for every version v.
C11_DeleteLibraryCascades ==
  last.op = "deleteLibrary" =>
    /\ getLibrary(TierOf(last.tier), last.library) = Null
    /\ \A v \in StoreVersions :
         StoreGetDocument(TierOf(last.tier), last.library, v) = Null

IsSave(l) == l.op = "scrape_docs"

\* C12: a saveDocument(doc) that returns, followed by
\* getDocument(doc.library, doc.version) on the same tier, gives a document
\* equal to doc in every field except possibly updatedAt.
C12_SaveThenGet ==
  (IsSave(last) /\ ~last.threw) =>
    LET got == StoreGetDocument(TierOf(last.tier), last.doc.library, last.doc.version)
    IN got # Null /\ [Get(got) EXCEPT !.updatedAt = last.doc.updatedAt] = last.doc

\* C12 witness: the second document was saved under a library name that the
\* sanitizer rewrites, into a tier that holds one document file, and is the
\* document read back.
C12_Witness ==
  /\ IsSave(last) /\ ~last.threw /\ last.doc.id = 2
  /\ getDocumentPath(last.doc.library, last.doc.version)
       # <<last.doc.library, last.doc.version>>
  /\ DOMAIN TierOf(last.tier).docs =
       {getDocumentPath(last.doc.library, last.doc.version)}
  /\ StoreGetDocument(TierOf(last.tier), last.doc.library, last.doc.version)
       = Some(last.doc)

IsUpdate(l) == l.op = "updateDocument"

\* C13: the document that updateDocument returns has the identifier and
\* the creation timestamp of the document that existed before the call,
\* for every partial.
C13_UpdateKeepsIdAndCreatedAt ==
  [][(IsUpdate(last') /\ last'.ret # Null) =>
       /\ Get(last'.ret).id = TierOf(last'.tier).docs[last'.path].id
       /\ Get(last'.ret).createdAt = TierOf(last'.tier).docs[last'.path].createdAt]_vars

StoreWrites == {"scrape_docs", "updateDocument", "deleteDocument", "deleteLibrary"}

\* C14: a store write operation that meets an I/O failure throws; it does
\* not return a value.
C14_WriteFailurePropagates ==
  (last.op \in StoreWrites /\ last.failed) => last.threw

\* C15: a saveDocument or updateDocument that fails at one of its steps
\* leaves the documents and library records of the tier as they were.
C15_AllOrNothing ==
  [][((IsSave(last') \/ IsUpdate(last')) /\ last'.failed) =>
       (project' = project /\ global' = global)]_vars

(***************************************************************************)
(* Ageing of libraries: documents are scraped into either tier at          *)
(* different times and updateOutdated is asked which project libraries     *)
(* are older than a maximum age.                                           *)
(***************************************************************************)
UpdateOutdatedOf(maxAges) ==
  \E maxAge \in maxAges :
    /\ last' = [op |-> "updateOutdated", maxAge |-> maxAge,
                ret |-> updateOutdated(project, now, maxAge)]
    /\ UNCHANGED <<project, global, now, nextId>>

MaxAges == 0..MaxTime

OutdatedTick == Tick
OutdatedScrape == ScrapeDocsOf({REACT, VUE}, {V18_0_0}, {PageHooks}, BOOLEAN, {"none"})
OutdatedUpdateOutdated == UpdateOutdatedOf(MaxAges)

NextOutdated == OutdatedTick \/ OutdatedScrape \/ OutdatedUpdateOutdated

SpecOutdated == Init /\ [][NextOutdated]_vars

IsOutdated(l) == l.op = "updateOutdated"

\* The positions of the list that describe the library.
EntriesOf(list, library) == {i \in 1..Len(list) : list[i] = OutdatedEntry(library)}

SeqsUpTo(S, n) == UNION {[1..k -> S] : k \in 0..n}

\* The calls of the resolver that are yet to be made.
FindBestVersionCalls(stored, requests) ==
  {[op |-> "call", fn |-> "findBestVersion", available |-> available,
    requested |-> requested] :
     available \in SeqsUpTo(stored, MaxLen), requested \in requests}

IsVersionCompatibleCalls(stored, requests) ==
  {[op |-> "call", fn |-> "isVersionCompatible", stored |-> storedVersion,
    requested |-> requested] :
     storedVersion \in stored, requested \in requests}

InitVersion ==
  /\ project = EmptyTier
  /\ global = EmptyTier
  /\ now = 0
  /\ nextId = 1
  /\ last \in FindBestVersionCalls(StoredVersionStrings, RequestedVersionStrings)
                \cup IsVersionCompatibleCalls(RequestedVersionStrings,
                                              RequestedVersionStrings)

VersionFindBest ==
  /\ last.op = "call" /\ last.fn = "findBestVersion"
  /\ last' = [op |-> "findBestVersion", available |-> last.available,
              requested |-> last.requested,
              ret |-> findBestVersion(last.available, last.requested)]
  /\ UNCHANGED <<project, global, now, nextId>>

VersionIsCompatible ==
  /\ last.op = "call" /\ last.fn = "isVersionCompatible"
  /\ last' = [op |-> "isVersionCompatible", stored |-> last.stored,
              requested |-> last.requested,
              ret |-> isVersionCompatible(last.stored, last.requested)]
  /\ UNCHANGED <<project, global, now, nextId>>

NextVersion == VersionFindBest \/ VersionIsCompatible

SpecVersion == InitVersion /\ [][NextVersion]_vars

Members(list) == {list[i] : i \in 1..Len(list)}

Dominates(r, versions) ==
  \A c \in versions : compareVersions(r, c) >= 0 /\ compareVersions(c, r) <= 0

Example == <<V1_0_0, V1_2_0, V2_0_0>>

\* C17: for a request other than latest and *, findBestVersion returns a
\* compatible member of available that compareVersions puts at or above
\* every compatible member, and null exactly when no member is compatible;
\* for latest and * it returns a member at or above every member.  With
\* [1.0.0, 1.2.0, 2.0.0]: ^1.0.0 gives 1.2.0, ~1.0.0 gives 1.0.0, 1 gives
\* 1.2.0.
C17_FindBestVersion ==
  last.op = "findBestVersion" =>
    LET compatible == {c \in Members(last.available) :
                         isVersionCompatible(c, last.requested)}
    IN /\ last.requested \in {LATEST, STAR} =>
            IF Len(last.available) = 0 THEN last.ret = Null
            ELSE /\ last.ret # Null
                 /\ Get(last.ret) \in Members(last.available)
                 /\ Dominates(Get(last.ret), Members(last.available))
       /\ last.requested \notin {LATEST, STAR} =>
            /\ last.ret = Null <=> compatible = {}
            /\ last.ret # Null =>
                 Get(last.ret) \in compatible /\ Dominates(Get(last.ret), compatible)
       /\ last.available = Example =>
            /\ last.requested = CARET_1_0_0 => last.ret = Some(V1_2_0)
            /\ last.requested = TILDE_1_0_0 => last.ret = Some(V1_0_0)
            /\ last.requested = MAJOR_1 => last.ret = Some(V1_2_0)

\* C17 witness: the request 1 on [1.0.0, 1.2.0, 2.0.0] gave 1.2.0.
C17_Witness ==
  /\ last.op = "findBestVersion" /\ last.available = Example
  /\ last.requested = MAJOR_1 /\ last.ret = Some(V1_2_0)

\* Lexicographic order on pairs of numbers.
PairAtLeast(a, b) == a[1] > b[1] \/ (a[1] = b[1] /\ a[2] >= b[2])

\* The number of dot-separated parts of a request.
Parts(requested) == Cardinality({i \in 1..Len(requested) : requested[i] = "."}) + 1

\* The reference for compatibility, by the kind of the request.
ReferenceCompatible(stored, requested) ==
  LET s == parseVersion(stored)
      r == parseVersion(requested)
  IN \/ requested \in {LATEST, STAR}
     \/ stored = requested
     \/ /\ s # Null /\ r # Null
        /\ CASE requested[1] = "^" ->
                  /\ Get(s).major = Get(r).major
                  /\ PairAtLeast(<<Get(s).minor, Get(s).patch>>,
                                 <<Get(r).minor, Get(r).patch>>)
             [] requested[1] = "~" ->
                  /\ <<Get(s).major, Get(s).minor>> = <<Get(r).major, Get(r).minor>>
                  /\ Get(s).patch >= Get(r).patch
             [] requested[1] \notin {"^", "~"} /\ Parts(requested) = 1 ->
                  Get(s).major = Get(r).major
             [] requested[1] \notin {"^", "~"} /\ Parts(requested) = 2 ->
                  <<Get(s).major, Get(s).minor>> = <<Get(r).major, Get(r).minor>>
             [] OTHER -> Get(s) = Get(r)

RECURSIVE GCD(_, _)
GCD(a, b) == IF b = 0 THEN a ELSE GCD(b, a % b)

Reduced(n, d, g) == [n |-> n \div g, d |-> d \div g]

Frac(n, d) == Reduced(n, d, GCD(n, d))

FAdd(x, y) == Frac(x.n * y.d + y.n * x.d, x.d * y.d)

FMul(x, y) == Frac(x.n * y.n, x.d * y.d)

\* x / y for y > 0.
FDiv(x, y) == Frac(x.n * y.d, x.d * y.n)

FLeq(x, y) == x.n * y.d <= y.n * x.d

FLess(x, y) == x.n * y.d < y.n * x.d

\* Math.min and Math.max, the first argument returned on a tie.
FMin(x, y) == IF FLeq(x, y) THEN x ELSE y

FMax(x, y) == IF FLeq(y, x) THEN x ELSE y

ZERO == Frac(0, 1)

ONE == Frac(1, 1)

DEFAULT_WEIGHTS ==
  [title |-> Frac(30, 100), description |-> Frac(15, 100),
   library |-> Frac(15, 100), content |-> Frac(10, 100),
   headers |-> Frac(15, 100), codeBlocks |-> Frac(10, 100),
   apiReferences |-> Frac(5, 100)]

\* The factors of the exact-match bonuses.
TITLE_BONUS == Frac(2, 1)

DESCRIPTION_BONUS == Frac(3, 2)

LIBRARY_BONUS == Frac(2, 1)

PARTIAL_HEADER == Frac(1, 2)

\* String.prototype.split(/\s+/): the maximal runs of non-whitespace, with an
\* empty string where the text starts or ends with whitespace.
RECURSIVE SplitWhitespace(_, _)
SplitWhitespace(text, piece) ==
  IF Len(text) = 0 THEN <<piece>>
  ELSE IF text[1] \in Whitespace
       THEN IF Len(text) > 1 /\ text[2] \in Whitespace
            THEN SplitWhitespace(Tail(text), piece)
            ELSE <<piece>> \o SplitWhitespace(Tail(text), << >>)
       ELSE SplitWhitespace(Tail(text), Append(piece, text[1]))

\* term.replace(/[^a-z0-9]/g, '')
IsLowerAlnum(c) == c \in Digits \/ \E i \in 1..26 : LowerCase[i] = c

StripNonAlnum(term) == SelectSeq(term, IsLowerAlnum)

LongerThanTwo(term) == Len(term) > 2

tokenize(text) ==
  [i \in 1..Len(SelectSeq(SplitWhitespace(text, << >>), LongerThanTwo)) |->
     StripNonAlnum(SelectSeq(SplitWhitespace(text, << >>), LongerThanTwo)[i])]

\* The number of elements of a list that satisfy a test.
Count(list, Test(_)) == Len(SelectSeq(list, Test))

calculateTermScore(text, terms) ==
  IF Len(terms) = 0 THEN ZERO
  ELSE LET Matches(term) == Includes(text, term)
       IN Frac(Count(terms, Matches), Len(terms))

\* The number of consecutive characters from position p on that are in the
\* class (member = TRUE) or outside of it (member = FALSE).
RECURSIVE Run(_, _, _, _)
Run(content, p, class, member) ==
  IF p <= Len(content) /\ (content[p] \in class) = member
  THEN 1 + Run(content, p + 1, class, member)
  ELSE 0

\* \w
WordChars ==
  {UpperCase[i] : i \in 1..26} \cup {LowerCase[i] : i \in 1..26}
    \cup Digits \cup {"_"}

\* ^ under the m flag.
AtLineStart(content, p) == p = 1 \/ content[p - 1] = "\n"

\* \b followed by \w.
AtWordStart(content, p) ==
  content[p] \in WordChars /\ (p = 1 \/ content[p - 1] \notin WordChars)

\* The last position of the line that holds position p.
EndOfLine(content, p) == p + Run(content, p + 1, {"\n"}, FALSE)

Largest(S) == CHOOSE j \in S : \A k \in S : k <= j

Smallest(S) == CHOOSE j \in S : \A k \in S : j <= k

Matched(content, from, to, end) ==
  Some([text |-> SubSeq(content, from, to), end |-> end])

\* The grave accent that delimits code in markdown; it cannot be written in a
\* string of TLA+, and the apostrophe stands for it in the contents.
BACKTICK == "'"

FENCE == <<BACKTICK, BACKTICK, BACKTICK>>

FUNCTION == <<"f", "u", "n", "c", "t", "i", "o", "n">>

METHOD == <<"m", "e", "t", "h", "o", "d">>

API == <<"a", "p", "i">>

\* /^#{1,6}\s+(.+)$/gm at position p: one to six marks at the start of a
\* line, the longest run of whitespace that still leaves a character of the
\* same line for the group, and the rest of that line.
HeaderAt(content, p) ==
  LET Text(start) ==
        IF start = {} THEN Null
        ELSE Matched(content, Largest(start), EndOfLine(content, Largest(start)),
                     EndOfLine(content, Largest(start)))
      Spaced(h, w) ==
        Text({p + h + j : j \in {i \in 1..w : /\ p + h + i <= Len(content)
                                              /\ content[p + h + i] # "\n"}})
      Marked(h) ==
        IF h \in 1..6 THEN Spaced(h, Run(content, p + h, Whitespace, TRUE))
        ELSE Null
  IN IF AtLineStart(content, p) THEN Marked(Run(content, p, {"#"}, TRUE))
     ELSE Null

\* /```[\s\S]*?```/g at position p: the whole block up to the nearest
\* closing fence.
FencedAt(content, p) ==
  LET Closed(closing) ==
        IF closing = {} THEN Null
        ELSE Matched(content, p, Smallest(closing) + 2, Smallest(closing) + 2)
  IN IF SubSeq(content, p, Min(Len(content), p + 2)) = FENCE
     THEN Closed({q \in (p + 3)..(Len(content) - 2) :
                    SubSeq(content, q, q + 2) = FENCE})
     ELSE Null

\* /`([^`]+)`/g at position p.
InlineAt(content, p) ==
  LET Inside(n) ==
        IF n >= 1 /\ p + n + 1 <= Len(content)
        THEN Matched(content, p + 1, p + n, p + n + 1)
        ELSE Null
  IN IF content[p] = BACKTICK THEN Inside(Run(content, p + 1, {BACKTICK}, FALSE))
     ELSE Null

\* /\b(\w+)\s*\(/g (dotted = FALSE) and /\.(\w+)\s*\(/g (dotted = TRUE) at
\* position p.
CallAt(content, p, dotted) ==
  LET first == IF dotted THEN p + 1 ELSE p
      Opened(n, w) ==
        IF n >= 1 /\ first + n + w <= Len(content) /\ content[first + n + w] = "("
        THEN Matched(content, first, first + n - 1, first + n + w)
        ELSE Null
      Word(n) == Opened(n, Run(content, first + n, Whitespace, TRUE))
  IN IF (IF dotted THEN content[p] = "." ELSE AtWordStart(content, p))
     THEN Word(Run(content, first, WordChars, TRUE))
     ELSE Null

\* /\b(?:function|method|api)\s+(\w+)/gi at position p.
DefinitionAt(content, p) ==
  LET Named(from, n) ==
        IF n >= 1 THEN Matched(content, from, from + n - 1, from + n - 1)
        ELSE Null
      Spaced(k, w) ==
        IF w >= 1 THEN Named(p + k + w, Run(content, p + k + w, WordChars, TRUE))
        ELSE Null
      Keyword(keywords) ==
        IF keywords = {} THEN Null
        ELSE Spaced(Len(CHOOSE k \in keywords : TRUE),
                    Run(content, p + Len(CHOOSE k \in keywords : TRUE),
                        Whitespace, TRUE))
  IN IF AtWordStart(content, p)
     THEN Keyword({k \in {FUNCTION, METHOD, API} :
                     /\ p + Len(k) - 1 <= Len(content)
                     /\ ToLower(SubSeq(content, p, p + Len(k) - 1)) = k})
     ELSE Null

\* /\b(\w+):\s*function/g at position p.
ObjectMethodAt(content, p) ==
  LET Valued(n, w) ==
        IF SubSeq(content, p + n + 1 + w,
                  Min(Len(content), p + n + w + Len(FUNCTION))) = FUNCTION
        THEN Matched(content, p, p + n - 1, p + n + w + Len(FUNCTION))
        ELSE Null
      Word(n) ==
        IF p + n <= Len(content) /\ content[p + n] = ":"
        THEN Valued(n, Run(content, p + n + 1, Whitespace, TRUE))
        ELSE Null
  IN IF AtWordStart(content, p) THEN Word(Run(content, p, WordChars, TRUE))
     ELSE Null

MatchAt(content, p, pattern) ==
  CASE pattern = "header" -> HeaderAt(content, p)
    [] pattern = "fenced" -> FencedAt(content, p)
    [] pattern = "inline" -> InlineAt(content, p)
    [] pattern = "call" -> CallAt(content, p, FALSE)
    [] pattern = "methodCall" -> CallAt(content, p, TRUE)
    [] pattern = "definition" -> DefinitionAt(content, p)
    [] pattern = "objectMethod" -> ObjectMethodAt(content, p)

\* The loop while ((match = regex.exec(content)) !== null) of a g-flagged
\* expression: the matches from left to right, each search starting where
\* the previous match ended.
RECURSIVE ExecAll(_, _, _)
ExecAll(content, p, pattern) ==
  IF p > Len(content) THEN << >>
  ELSE LET Found(m) ==
             IF m = Null THEN ExecAll(content, p + 1, pattern)
             ELSE <<Get(m).text>> \o ExecAll(content, Get(m).end + 1, pattern)
       IN Found(MatchAt(content, p, pattern))

extractHeaders(content) == ExecAll(content, 1, "header")

extractCodeBlocks(content) ==
  ExecAll(content, 1, "fenced") \o ExecAll(content, 1, "inline")

\* The elements of the Set of references.
extractApiReferences(content) ==
  UNION {{ExecAll(content, 1, pattern)[i] :
            i \in 1..Len(ExecAll(content, 1, pattern))} :
           pattern \in {"call", "methodCall", "definition", "objectMethod"}}

RECURSIVE SumHeaders(_, _, _)
SumHeaders(headers, queryLower, queryTerms) ==
  IF Len(headers) = 0 THEN ZERO
  ELSE FAdd(IF Includes(ToLower(headers[1]), queryLower) THEN ONE
            ELSE FMul(calculateTermScore(ToLower(headers[1]), queryTerms),
                      PARTIAL_HEADER),
            SumHeaders(Tail(headers), queryLower, queryTerms))

calculateHeaderScore(headers, queryLower, queryTerms) ==
  IF Len(headers) = 0 THEN ZERO
  ELSE FMin(ONE, FDiv(SumHeaders(headers, queryLower, queryTerms),
                      Frac(Len(headers), 1)))

calculateCodeScore(codeBlocks, queryLower, queryTerms) ==
  IF Len(codeBlocks) = 0 THEN ZERO
  ELSE LET Matches(block) == Includes(ToLower(block), queryLower)
       IN Frac(Count(codeBlocks, Matches), Len(codeBlocks))

\* The divisor of apiRefs.length in calculateApiScore.
API_REFS_PER_POINT == 10

calculateApiScore(apiRefs, queryLower, queryTerms) ==
  IF apiRefs = {} THEN ZERO
  ELSE FMin(ONE,
            FDiv(Frac(Cardinality({ref \in apiRefs :
                                     \/ Includes(ToLower(ref), queryLower)
                                     \/ Includes(queryLower, ToLower(ref))}), 1),
                 FMax(ONE, Frac(Cardinality(apiRefs), API_REFS_PER_POINT))))

\* One of the four fields matched as a whole or term by term.
FieldScore(textLower, queryLower, queryTerms, weight, bonus) ==
  IF Includes(textLower, queryLower) THEN FMul(weight, bonus)
  ELSE FMul(weight, calculateTermScore(textLower, queryTerms))

OptFieldScore(field, queryLower, queryTerms, weight, bonus) ==
  IF field # Null /\ Truthy(Get(field))
  THEN FieldScore(ToLower(Get(field)), queryLower, queryTerms, weight, bonus)
  ELSE ZERO

\* The score of calculateScore before the cap.
SummedScore(doc, queryLower, queryTerms) ==
  FAdd(OptFieldScore(doc.metadata.title, queryLower, queryTerms,
                     DEFAULT_WEIGHTS.title, TITLE_BONUS),
  FAdd(OptFieldScore(doc.metadata.description, queryLower, queryTerms,
                     DEFAULT_WEIGHTS.description, DESCRIPTION_BONUS),
  FAdd(FieldScore(ToLower(doc.library), queryLower, queryTerms,
                  DEFAULT_WEIGHTS.library, LIBRARY_BONUS),
  FAdd(FMul(DEFAULT_WEIGHTS.headers,
            calculateHeaderScore(extractHeaders(doc.content), queryLower,
                                 queryTerms)),
  FAdd(FMul(DEFAULT_WEIGHTS.codeBlocks,
            calculateCodeScore(extractCodeBlocks(doc.content), queryLower,
                               queryTerms)),
  FAdd(FMul(DEFAULT_WEIGHTS.apiReferences,
            calculateApiScore(extractApiReferences(doc.content), queryLower,
                              queryTerms)),
       FieldScore(ToLower(doc.content), queryLower, queryTerms,
                  DEFAULT_WEIGHTS.content, ONE)))))))

calculateScoreUncapped(doc, queryLower, queryTerms) ==
  SummedScore(doc, queryLower, queryTerms)

calculateScore(doc, queryLower, queryTerms) ==
  FMin(ONE, SummedScore(doc, queryLower, queryTerms))

\* String.prototype.indexOf(q, from), 0-based, -1 when q does not occur.
IndexOfFrom(s, q, from) ==
  LET At(found) == IF found = {} THEN -1 ELSE Smallest(found)
  IN At({i \in Min(from, Len(s))..(Len(s) - Len(q)) :
           SubSeq(s, i + 1, i + Len(q)) = q})

MAX_HIGHLIGHTS == 3

HEADER_MARK == <<"#", "#", "#", " ">>

HighlightAt(content, index, queryLower, half) ==
  LET Cut(start, end) ==
        (IF start > 0 THEN ELLIPSIS ELSE << >>)
          \o Substring(content, start, end)
          \o (IF end < Len(content) THEN ELLIPSIS ELSE << >>)
  IN Cut(Max(0, index - half),
         Min(Len(content), index + Len(queryLower) + half))

RECURSIVE Occurrences(_, _, _, _, _)
Occurrences(content, queryLower, half, index, found) ==
  IF index = -1 \/ found >= MAX_HIGHLIGHTS THEN << >>
  ELSE <<HighlightAt(content, index, queryLower, half)>>
         \o Occurrences(content, queryLower, half,
                        IndexOfFrom(ToLower(content), queryLower, index + 1),
                        found + 1)

\* extractHighlights for an even maxLength.
extractHighlights(doc, queryLower, maxLength) ==
  LET Matches(header) == Includes(ToLower(header), queryLower)
      FirstOf(headers) ==
        IF Len(headers) = 0 THEN << >> ELSE <<HEADER_MARK \o headers[1]>>
      OrHeader(highlights) ==
        IF Len(highlights) = 0
        THEN FirstOf(SelectSeq(extractHeaders(doc.content), Matches))
        ELSE highlights
  IN OrHeader(Occurrences(doc.content, queryLower, maxLength \div 2,
                          IndexOfFrom(ToLower(doc.content), queryLower, 0), 0))

\* The defaults of the destructured options.
DEFAULT_LIMIT == 10

DEFAULT_HIGHLIGHT_LENGTH == 100

DEFAULT_MIN_SCORE == Frac(1, 10)

OrDefault(option, default) == IF option = Null THEN default ELSE Get(option)

\* Array.prototype.sort((a, b) => b.score - a.score) on fractions: a stable
\* sort by descending score.
RECURSIVE InsertByFraction(_, _)
InsertByFraction(sorted, r) ==
  IF Len(sorted) = 0 THEN <<r>>
  ELSE IF FLeq(r.score, sorted[Len(sorted)].score) THEN Append(sorted, r)
  ELSE Append(InsertByFraction(SubSeq(sorted, 1, Len(sorted) - 1), r),
              sorted[Len(sorted)])

RECURSIVE SortByFraction(_)
SortByFraction(results) ==
  IF Len(results) = 0 THEN << >>
  ELSE InsertByFraction(SortByFraction(SubSeq(results, 1, Len(results) - 1)),
                        results[Len(results)])

\* The loop of search over the documents: one result for every document
\* whose score reaches minScore.
RECURSIVE Scan(_, _, _, _)
Scan(documents, queryLower, queryTerms, options) ==
  IF Len(documents) = 0 THEN << >>
  ELSE LET Result(doc, score) ==
             IF FLeq(OrDefault(options.minScore, DEFAULT_MIN_SCORE), score)
             THEN <<[document |-> doc, score |-> score,
                     highlights |->
                       IF OrDefault(options.includeHighlights, TRUE)
                       THEN extractHighlights(doc, queryLower,
                              OrDefault(options.highlightLength,
                                        DEFAULT_HIGHLIGHT_LENGTH))
                       ELSE << >>]>>
             ELSE << >>
       IN Result(documents[1],
                 calculateScore(documents[1], queryLower, queryTerms))
            \o Scan(Tail(documents), queryLower, queryTerms, options)

\* DocumentSearchEngine.search
search(documents, query, options) ==
  Slice(SortByFraction(Scan(documents, ToLower(query),
                            tokenize(ToLower(query)), options)),
        OrDefault(options.limit, DEFAULT_LIMIT))

(***************************************************************************)
(* The relevance engine on its own: search is applied to lists of          *)
(* documents, queries and options drawn from bounded sets.                 *)
(***************************************************************************)
\* A page about react whose title, description, library, header, code and
\* call all hold the word.
DocReact ==
  [id |-> 1, library |-> REACT,
   metadata |-> [title |-> Some(<<"R", "e", "a", "c", "t">>), description |-> Some(<<"r", "e", "a", "c", "t", " ", "a", "p", "i">>)],
   content |->
     <<"#", " ", "R", "e", "a", "c", "t", "\n", "'", "r", "e", "a", "c",
       "t", "'", "\n", "r", "e", "a", "c", "t", "(", "x", ")">>]

\* A page without a title, with a header and a function definition.
DocHooks ==
  [id |-> 2, library |-> VUE,
   metadata |-> [title |-> Null, description |-> Some(<<"u", "s", "e", " ", "h", "o", "o", "k", "s", " ", "a", "p", "i">>)],
   content |->
     <<"#", "#", " ", "U", "s", "e", " ", "h", "o", "o", "k", "s", "\n",
       "f", "u", "n", "c", "t", "i", "o", "n", " ", "u", "s", "e", "S",
       "t", "a", "t", "e">>]

\* A page with an empty title, no description and plain text.
DocPlain ==
  [id |-> 3, library |-> VUE,
   metadata |-> [title |-> Some(<< >>), description |-> Null],
   content |-> <<"a", " ", "r", "e", "a", "c", "t">>]

RelevanceDocs == {DocReact, DocHooks, DocPlain}

QueryUseHooks == <<"U", "s", "e", " ", "H", "o", "o", "k", "s">>

QueryTerms == <<"r", "e", "a", "c", "t", " ", "h", "o", "o", "k", "s", " ", "a", "p", "i">>

QueryNone == <<"z", "z", "z">>

RelevanceQueries == {QueryReact, QueryUseHooks, QueryTerms, QueryNone, << >>}

HALF == Frac(1, 2)

RelevanceMinScores == {Null, Some(ZERO), Some(HALF), Some(ONE)}

SHORT_HIGHLIGHT == 2

RelevanceOptions ==
  [limit : {Null} \cup {Some(n) : n \in 1..MaxLimit},
   minScore : RelevanceMinScores,
   includeHighlights : {Null, Some(FALSE)},
   highlightLength : {Null, Some(SHORT_HIGHLIGHT)}]

\* The calls of search that are yet to be made.
SearchCalls(docs, queries, options) ==
  [op : {"call"}, documents : SeqsUpTo(docs, MaxDocs), query : queries,
   options : options]

InitRelevance ==
  /\ project = EmptyTier
  /\ global = EmptyTier
  /\ now = 0
  /\ nextId = 1
  /\ last \in SearchCalls(RelevanceDocs, RelevanceQueries, RelevanceOptions)

RelevanceSearch ==
  /\ last.op = "call"
  /\ last' = [op |-> "search", documents |-> last.documents,
              query |-> last.query, options |-> last.options,
              ret |-> search(last.documents, last.query, last.options)]
  /\ UNCHANGED <<project, global, now, nextId>>

NextRelevance == RelevanceSearch

SpecRelevance == InitRelevance /\ [][NextRelevance]_vars

InUnit(score) == FLeq(ZERO, score) /\ FLeq(score, ONE)

\* C19: the score of every document for every query lies in [0, 1], every
\* result that search returns has a score of at least minScore (0.1 when the
\* option is absent), and the results are in non-increasing order of score.
C19_ScoresCappedFilteredSorted ==
  last.op = "search" =>
    /\ \A i \in 1..Len(last.documents) :
         InUnit(calculateScore(last.documents[i], ToLower(last.query),
                               tokenize(ToLower(last.query))))
    /\ \A i \in 1..Len(last.ret) :
         /\ InUnit(last.ret[i].score)
         /\ FLeq(OrDefault(last.options.minScore, DEFAULT_MIN_SCORE),
                 last.ret[i].score)
    /\ \A i \in 1..(Len(last.ret) - 1) :
         FLeq(last.ret[i + 1].score, last.ret[i].score)

\* C19 witness: for the query react the bonuses of the react page add up to
\* more than 1 and its returned score is exactly 1; it is returned ahead of
\* a page with a smaller score.
C19_Witness ==
  /\ last.op = "search" /\ last.query = QueryReact
  /\ last.documents = <<DocPlain, DocReact>>
  /\ FLess(ONE, SummedScore(DocReact, QueryReact, tokenize(QueryReact)))
  /\ Len(last.ret) = 2
  /\ last.ret[1].document = DocReact /\ last.ret[1].score = ONE
  /\ FLess(last.ret[2].score, ONE)

(***************************************************************************)
(* Unified Search Aggregator (unified-search/index.ts).                    *)
(*                                                                         *)
(* The three storages are the collaborators handed to the constructor: a   *)
(* storage is what its call returns and whether the call throws.  A        *)
(* promise is Some(results) when it is fulfilled and Null when it is       *)
(* rejected.                                                               *)
(***************************************************************************)
MEMORY_HIGHLIGHT == 200

TASK_LABEL == <<"T", "a", "s", "k", ":", " ">>

TAG_LABEL == <<"T", "a", "g", ":", " ">>

NAME_SCORE == Frac(4, 10)

DETAILS_SCORE == Frac(3, 10)

TAG_SCORE == Frac(2, 10)

IN_PROGRESS_BOOST == Frac(12, 10)

PENDING_BOOST == Frac(11, 10)

UNIFIED_DEFAULT_LIMIT == 20

UnifiedMemoryResult(result) ==
  [type |-> "memory", score |-> result.score, data |-> result,
   highlights |->
     <<Substring(result.memory.content, 0,
                 Min(MEMORY_HIGHLIGHT, Len(result.memory.content)))
         \o ELLIPSIS>>]

\* Variant: the rejection of the storage call is not caught.
UnifiedSearchMemoriesUncaught(memoryStorage, query) ==
  IF memoryStorage.throws THEN Null
  ELSE Some([i \in 1..Len(memoryStorage.results) |->
               UnifiedMemoryResult(memoryStorage.results[i])])

\* UnifiedSearchEngine.searchMemories
UnifiedSearchMemories(memoryStorage, query) ==
  IF memoryStorage.throws THEN Some(<< >>)
  ELSE Some([i \in 1..Len(memoryStorage.results) |->
               UnifiedMemoryResult(memoryStorage.results[i])])

TaskTags(task) == IF task.tags = Null THEN << >> ELSE Get(task.tags)

\* The score of a task before the cap, and its highlights.
TaskScore(task, queryLower) ==
  LET Matches(tag) == Includes(ToLower(tag), queryLower)
      Boosted(score) ==
        IF task.status = "in-progress" THEN FMul(score, IN_PROGRESS_BOOST)
        ELSE IF task.status = "pending" THEN FMul(score, PENDING_BOOST)
        ELSE score
  IN Boosted(FAdd(IF Includes(ToLower(task.name), queryLower)
                  THEN NAME_SCORE ELSE ZERO,
             FAdd(IF Includes(ToLower(task.details), queryLower)
                  THEN DETAILS_SCORE ELSE ZERO,
                  FMul(Frac(Count(TaskTags(task), Matches), 1), TAG_SCORE))))

TaskHighlights(task, queryLower) ==
  LET Matches(tag) == Includes(ToLower(tag), queryLower)
      Tagged(tags) == [i \in 1..Len(tags) |-> TAG_LABEL \o tags[i]]
      Around(index) ==
        ELLIPSIS
          \o Substring(task.details, Max(0, index - HighlightPad),
                       Min(Len(task.details),
                           index + Len(queryLower) + HighlightPad))
          \o ELLIPSIS
  IN (IF Includes(ToLower(task.name), queryLower)
      THEN <<TASK_LABEL \o task.name>> ELSE << >>)
       \o (IF Includes(ToLower(task.details), queryLower)
           THEN <<Around(IndexOf(ToLower(task.details), queryLower))>>
           ELSE << >>)
       \o Tagged(SelectSeq(TaskTags(task), Matches))

RECURSIVE ScanTasks(_, _)
ScanTasks(allTasks, queryLower) ==
  IF Len(allTasks) = 0 THEN << >>
  ELSE (IF FLess(ZERO, TaskScore(allTasks[1], queryLower))
        THEN <<[type |-> "task",
                score |-> FMin(ONE, TaskScore(allTasks[1], queryLower)),
                data |-> allTasks[1],
                highlights |-> TaskHighlights(allTasks[1], queryLower)]>>
        ELSE << >>)
         \o ScanTasks(Tail(allTasks), queryLower)

\* UnifiedSearchEngine.searchTasks
UnifiedSearchTasks(taskStorage, query) ==
  IF taskStorage.throws THEN Some(<< >>)
  ELSE Some(ScanTasks(taskStorage.tasks, ToLower(query)))

\* UnifiedSearchEngine.searchDocuments
UnifiedSearchDocuments(documentStorage, query) ==
  IF documentStorage.throws THEN Some(<< >>)
  ELSE Some([i \in 1..Len(documentStorage.results) |->
               [type |-> "document", score |-> documentStorage.results[i].score,
                data |-> documentStorage.results[i],
                highlights |-> documentStorage.results[i].highlights]])

\* Array.prototype.flat of the fulfilled promises.
RECURSIVE Flat(_)
Flat(results) ==
  IF Len(results) = 0 THEN << >>
  ELSE Get(results[1]) \o Flat(Tail(results))

\* UnifiedSearchEngine.search: Promise.all rejects when one of the promises
\* is rejected.
UnifiedSearch(query, options, memoryStorage, taskStorage, documentStorage) ==
  LET Reaches(result) ==
        FLeq(OrDefault(options.minScore, DEFAULT_MIN_SCORE), result.score)
      Settled(results) ==
        IF \E i \in 1..Len(results) : results[i] = Null
        THEN [threw |-> TRUE, ret |-> << >>]
        ELSE [threw |-> FALSE,
              ret |-> Slice(SortByFraction(SelectSeq(Flat(results), Reaches)),
                            OrDefault(options.limit, UNIFIED_DEFAULT_LIMIT))]
  IN Settled((IF OrDefault(options.includeMemories, TRUE)
              THEN <<UnifiedSearchMemories(memoryStorage, query)>> ELSE << >>)
               \o (IF OrDefault(options.includeTasks, TRUE)
                   THEN <<UnifiedSearchTasks(taskStorage, query)>> ELSE << >>)
               \o (IF OrDefault(options.includeDocuments, TRUE)
                   THEN <<UnifiedSearchDocuments(documentStorage, query)>>
                   ELSE << >>))

(***************************************************************************)
(* The aggregator on its own: search is applied to queries, options and    *)
(* storages drawn from bounded sets; each storage call may throw.          *)
(***************************************************************************)
MemoryNote ==
  [memory |-> [id |-> 1, content |-> <<"r", "e", "a", "c", "t", " ", "n", "o", "t", "e">>], score |-> Frac(9, 10)]

MemoryWeak ==
  [memory |-> [id |-> 2, content |-> <<"v", "u", "e">>], score |-> Frac(2, 10)]

\* An in-progress task that matches react in its name, details and tag.
TaskHooks ==
  [id |-> 1, name |-> <<"R", "e", "a", "c", "t", " ", "h", "o", "o", "k", "s">>, details |-> <<"u", "s", "e", " ", "r", "e", "a", "c", "t">>,
   tags |-> Some(<<REACT>>), status |-> "in-progress"]

\* A pending task without tags that matches react in its details.
TaskDocs ==
  [id |-> 2, name |-> <<"W", "r", "i", "t", "e", " ", "d", "o", "c", "s">>, details |-> <<"a", "b", "o", "u", "t", " ", "R", "e", "a", "c", "t">>,
   tags |-> Null, status |-> "pending"]

DocumentHit ==
  [document |-> DocReact, score |-> Frac(6, 10), highlights |-> <<QueryReact>>]

MemoryStorages ==
  [throws : BOOLEAN, results : {<< >>, <<MemoryWeak, MemoryNote>>}]

TaskStorages ==
  [throws : BOOLEAN, tasks : SeqsUpTo({TaskHooks, TaskDocs}, MaxDocs)]

DocumentStorages == [throws : BOOLEAN, results : {<< >>, <<DocumentHit>>}]

\* includeMemories, includeTasks, includeDocuments: all absent, or one false.
UnifiedIncludes ==
  {<<Null, Null, Null>>, <<Some(FALSE), Null, Null>>,
   <<Null, Some(FALSE), Null>>, <<Null, Null, Some(FALSE)>>}

UnifiedOptions ==
  {[includeMemories |-> include[1], includeTasks |-> include[2],
    includeDocuments |-> include[3], limit |-> limit, minScore |-> minScore] :
     include \in UnifiedIncludes,
     limit \in {Null} \cup {Some(n) : n \in 1..MaxLimit},
     minScore \in {Null, Some(HALF)}}

UnifiedQueries == {QueryReact, QueryNone}

\* The calls of the aggregator that are yet to be made.
UnifiedCalls ==
  [op : {"call"}, query : UnifiedQueries, options : UnifiedOptions,
   memoryStorage : MemoryStorages, taskStorage : TaskStorages,
   documentStorage : DocumentStorages]

InitUnified ==
  /\ project = EmptyTier
  /\ global = EmptyTier
  /\ now = 0
  /\ nextId = 1
  /\ last \in UnifiedCalls

UnifiedSearchCall ==
  /\ last.op = "call"
  /\ \E done \in {UnifiedSearch(last.query, last.options, last.memoryStorage,
                                last.taskStorage, last.documentStorage)} :
       last' = [op |-> "unifiedSearch", query |-> last.query,
                options |-> last.options,
                memoryStorage |-> last.memoryStorage,
                taskStorage |-> last.taskStorage,
                documentStorage |-> last.documentStorage,
                ret |-> done.ret, threw |-> done.threw]
  /\ UNCHANGED <<project, global, now, nextId>>

NextUnified == UnifiedSearchCall

SpecUnified == InitUnified /\ [][NextUnified]_vars

\* The storage of a source whose call returns nothing and does not throw.
Emptied(storage) ==
  IF storage.throws
  THEN [f \in DOMAIN storage |-> IF f = "throws" THEN FALSE ELSE << >>]
  ELSE storage

\* The source of a result type did not fail and was asked for.
Answered(l, type) ==
  CASE type = "memory" ->
         ~l.memoryStorage.throws /\ OrDefault(l.options.includeMemories, TRUE)
    [] type = "task" ->
         ~l.taskStorage.throws /\ OrDefault(l.options.includeTasks, TRUE)
    [] type = "document" ->
         ~l.documentStorage.throws /\ OrDefault(l.options.includeDocuments, TRUE)

\* C20: whichever storage calls throw, the aggregate search returns
\* normally, and what it returns is what it returns when each failed source
\* is an empty one: only results of the sources that answered, each with a
\* score of at least minScore, in non-increasing order of score, at most
\* limit of them, and all of them when fewer than limit are returned.
C20_FailedSourceIsEmptySource ==
  last.op = "unifiedSearch" =>
    /\ ~last.threw
    /\ last.ret = UnifiedSearch(last.query, last.options,
                                Emptied(last.memoryStorage),
                                Emptied(last.taskStorage),
                                Emptied(last.documentStorage)).ret
    /\ Len(last.ret) <= OrDefault(last.options.limit, UNIFIED_DEFAULT_LIMIT)
    /\ \A i \in 1..Len(last.ret) :
         /\ Answered(last, last.ret[i].type)
         /\ FLeq(OrDefault(last.options.minScore, DEFAULT_MIN_SCORE),
                 last.ret[i].score)
    /\ \A i \in 1..(Len(last.ret) - 1) :
         FLeq(last.ret[i + 1].score, last.ret[i].score)
    /\ Len(last.ret) < OrDefault(last.options.limit, UNIFIED_DEFAULT_LIMIT) =>
         /\ Answered(last, "memory") =>
              \A i \in 1..Len(last.memoryStorage.results) :
                FLeq(OrDefault(last.options.minScore, DEFAULT_MIN_SCORE),
                     last.memoryStorage.results[i].score) =>
                  \E j \in 1..Len(last.ret) :
                    /\ last.ret[j].type = "memory"
                    /\ last.ret[j].data = last.memoryStorage.results[i]
         /\ Answered(last, "document") =>
              \A i \in 1..Len(last.documentStorage.results) :
                FLeq(OrDefault(last.options.minScore, DEFAULT_MIN_SCORE),
                     last.documentStorage.results[i].score) =>
                  \E j \in 1..Len(last.ret) :
                    /\ last.ret[j].type = "document"
                    /\ last.ret[j].data = last.documentStorage.results[i]

\* C20 witness: the memory storage, which has results, throws; the search
\* for react with a minimum score of 1/2 returns the task whose score is
\* capped at 1 ahead of the document, and leaves out the task that scores
\* 33/100.
C20_Witness ==
  /\ last.op = "unifiedSearch" /\ ~last.threw
  /\ last.memoryStorage = [throws |-> TRUE, results |-> <<MemoryWeak, MemoryNote>>]
  /\ last.taskStorage = [throws |-> FALSE, tasks |-> <<TaskDocs, TaskHooks>>]
  /\ last.options.minScore = Some(HALF) /\ last.options.limit = Null
  /\ Len(last.ret) = 2
  /\ last.ret[1].type = "task" /\ last.ret[1].data = TaskHooks
  /\ last.ret[1].score = ONE
  /\ last.ret[2].type = "document" /\ last.ret[2].data = DocumentHit

(***************************************************************************)
(* remove_docs (docs.ts): removal of one version or of a whole library     *)
(* from the selected tiers, behind a confirmation flag.                    *)
(***************************************************************************)
RemoveStorages == {"project", "global", "both"}

Counted1(done) == [tier |-> done.tier, count |-> IF done.ret THEN 1 ELSE 0]

\* What remove_docs does to one tier: the tier afterwards and what it adds
\* to deletedCount.  deleteDocument(doc.id) removes the first file that the
\* scan finds with the identifier.
RemoveFrom(t, selected, library, version, fail) ==
  LET Found(doc) ==
        IF doc = Null THEN {[tier |-> t, count |-> 0]}
        ELSE {Counted1(deleteDocument(t, filePath, fail)) :
                filePath \in findDocumentFileById(t, Get(doc).id)}
  IN IF ~selected THEN {[tier |-> t, count |-> 0]}
     ELSE IF version # Null /\ Truthy(Get(version))
          THEN Found(StoreGetDocument(t, library, Get(version)))
          ELSE {Counted1(deleteLibrary(t, library, fail))}

\* Variant: the confirmation flag is not looked at.
removeDocsUnconfirmed(p, g, library, version, storage, confirm, fail) ==
  {[project |-> pDone.tier, global |-> gDone.tier, isError |-> FALSE,
    deletedCount |-> pDone.count + gDone.count] :
     pDone \in RemoveFrom(p, storage \in {"project", "both"}, library, version, fail),
     gDone \in RemoveFrom(g, storage \in {"global", "both"}, library, version, fail)}

\* The handler of remove_docs: the outcomes it can have.
removeDocs(p, g, library, version, storage, confirm, fail) ==
  IF ~confirm
  THEN {[project |-> p, global |-> g, isError |-> TRUE, deletedCount |-> 0]}
  ELSE {[project |-> pDone.tier, global |-> gDone.tier, isError |-> FALSE,
         deletedCount |-> pDone.count + gDone.count] :
          pDone \in RemoveFrom(p, storage \in {"project", "both"}, library,
                               version, fail),
          gDone \in RemoveFrom(g, storage \in {"global", "both"}, library,
                               version, fail)}

RemoveDocsOf(libraries, versions, storages, confirms, failModes) ==
  \E library \in libraries, version \in versions, storage \in storages,
     confirm \in confirms, fail \in failModes :
    \E done \in removeDocs(project, global, library, version, storage,
                           confirm, fail) :
      /\ project' = done.project
      /\ global' = done.global
      /\ last' = [op |-> "remove_docs", library |-> library,
                  version |-> version, storage |-> storage,
                  confirm |-> confirm, isError |-> done.isError,
                  deletedCount |-> done.deletedCount]
      /\ UNCHANGED <<now, nextId>>

RemoveVersions == {Null, Some(V18_0_0), Some(V18_2_0)}

RemoveScrape ==
  ScrapeDocsOf({REACT, VUE}, StoreVersions, {PageHooks}, BOOLEAN, {"none"})

RemoveRemove ==
  RemoveDocsOf({REACT, VUE}, RemoveVersions, RemoveStorages, BOOLEAN, {"none"})

NextRemove == RemoveScrape \/ RemoveRemove

SpecRemove == Init /\ [][NextRemove]_vars

\* C21: a remove_docs call whose confirm is not true leaves every document
\* and every library record of both tiers as they were, whatever the
\* library, the version and the tier selector.
C21_UnconfirmedRemovesNothing ==
  [][(last'.op = "remove_docs" /\ ~last'.confirm) =>
       (project' = project /\ global' = global)]_vars

\* C21 witness: an unconfirmed removal of a library from both tiers, each of
\* which holds a document of it, has returned and the documents are there.
C21_Witness ==
  /\ last.op = "remove_docs" /\ ~last.confirm /\ last.storage = "both"
  /\ last.library = REACT /\ last.version = Null
  /\ getDocumentPath(REACT, V18_0_0) \in DOMAIN project.docs
  /\ getDocumentPath(REACT, V18_2_0) \in DOMAIN global.docs
  /\ getLibraryPath(REACT) \in DOMAIN project.libs

\* C22: the response of a remove_docs call whose confirm is not true is not
\* flagged as an error.
C22_UnconfirmedIsNotAnError ==
  (last.op = "remove_docs" /\ ~last.confirm) => ~last.isError

(***************************************************************************)
(* Addressing by (library, version) in one tier for two library names      *)
(* that the sanitizer maps to the same file name.                          *)
(***************************************************************************)
AddressLibraries == {SCOPED, FLATTENED}

AddressSave ==
  ScrapeDocsOf(AddressLibraries, StoreVersions, {PageHooks}, {TRUE}, {"none"})

AddressDeleteLibrary == DeleteLibraryOf({"project"}, AddressLibraries, {"none"})

AddressGet ==
  GetDocumentOf(AddressLibraries, StoreVersions, {"none"})

NextAddress == AddressSave \/ AddressDeleteLibrary \/ AddressGet

SpecAddress == Init /\ [][NextAddress]_vars

StoredDocuments(t) == {t.docs[p] : p \in DOMAIN t.docs}

\* C23: within the project tier, a save at (l1, v1) leaves every document
\* stored for another pair (l2, v2) retrievable and unchanged,
\* deleteLibrary(l1) leaves every document of another library stored, and
\* getDocument(l, v) returns only a document of library l and version v,
\* also for library names that the sanitizer rewrites.
C23_AddressedByLibraryAndVersion ==
  [][/\ (last'.op = "scrape_docs" /\ ~last'.threw) =>
          \A doc \in StoredDocuments(project) :
            <<doc.library, doc.version>>
                # <<last'.doc.library, last'.doc.version>> =>
              StoreGetDocument(project', doc.library, doc.version) = Some(doc)
     /\ last'.op = "deleteLibrary" =>
          \A doc \in StoredDocuments(project) :
            doc.library # last'.library => doc \in StoredDocuments(project')
     /\ (last'.op = "getDocument" /\ last'.ret # Null) =>
          /\ Get(last'.ret).library = last'.library
          /\ Get(last'.ret).version = last'.version]_vars

(***************************************************************************)
(* Identifiers within a tier: documents are scraped, moved to another      *)
(* version by updateDocument, promoted by getDocument and copied by the    *)
(* directed sync.                                                          *)
(***************************************************************************)
IdsScrape == ScrapeDocsOf({REACT}, {V18_0_0}, {PageHooks}, BOOLEAN, {"none"})

IdsUpdate == UpdateDocumentOf(Tiers, {[version |-> V18_2_0]}, {"none"})

IdsGet == GetDocumentOf({REACT}, {V18_0_0}, {"none"})

IdsSync == SyncDocsOf(SyncDirections, SyncFilters, {"none"})

NextIds == IdsScrape \/ IdsUpdate \/ IdsGet \/ IdsSync

SpecIds == Init /\ [][NextIds]_vars

UniqueIds(t) ==
  \A p, q \in DOMAIN t.docs : t.docs[p].id = t.docs[q].id => p = q

\* C24: in each tier no two documents stored at different (library,
\* version) addresses have the same identifier, after any sequence of
\* saves, updates, promotions and syncs.
C24_IdentifiersUniqueInTier == UniqueIds(project) /\ UniqueIds(global)

(***************************************************************************)
(* Initialization (DocFileStorage.initialize, DualDocStorage.initialize).  *)
(*                                                                         *)
(* The call in flight is held in last: for each tier the directories that  *)
(* exist, the number of mkdir calls that have returned and the state of    *)
(* the promise of its initialize(); and the state of the promise of the    *)
(* coordinator's initialize().                                             *)
(***************************************************************************)
\* basePath, docsDir, librariesDir, in the order in which they are made.
DIRECTORIES == <<"base", "documents", "libraries">>

\* One mkdir of DocFileStorage.initialize returns: the directory exists
\* afterwards when it succeeded; the promise is fulfilled after the third
\* and rejected by the catch block at the first failure.
initializeStep(run, ok) ==
  IF ok
  THEN [made |-> run.made \cup {DIRECTORIES[run.done + 1]},
        done |-> run.done + 1,
        state |-> IF run.done + 1 = Len(DIRECTORIES) THEN "fulfilled"
                  ELSE "pending"]
  ELSE [made |-> run.made, done |-> run.done, state |-> "rejected"]

\* Promise.all: rejected as soon as one of the promises is rejected,
\* fulfilled when all of them are fulfilled.
PromiseAll(promise, states) ==
  IF promise # "pending" THEN promise
  ELSE IF \E i \in 1..Len(states) : states[i] = "rejected" THEN "rejected"
  ELSE IF \A i \in 1..Len(states) : states[i] = "fulfilled" THEN "fulfilled"
  ELSE "pending"

\* The directories that exist before the call: none, or the base directory
\* with some of its two subdirectories.
ExistingDirectories ==
  {{}} \cup {{"base"} \cup sub : sub \in SUBSET {"documents", "libraries"}}

NewRun(made) == [made |-> made, done |-> 0, state |-> "pending"]

\* The calls of DualDocStorage.initialize that have just issued both
\* initializations.
InitializeCalls ==
  {[op |-> "initialize", global |-> NewRun(g), project |-> NewRun(p),
    promise |-> "pending"] : g \in ExistingDirectories, p \in ExistingDirectories}

InitInitialize ==
  /\ project = EmptyTier
  /\ global = EmptyTier
  /\ now = 0
  /\ nextId = 1
  /\ last \in InitializeCalls

\* A mkdir of the global tier's initialize() returns.
InitializeGlobalStep ==
  /\ last.op = "initialize" /\ last.global.state = "pending"
  /\ \E ok \in BOOLEAN :
       \E run \in {initializeStep(last.global, ok)} :
         last' = [last EXCEPT
                    !.global = run,
                    !.promise = PromiseAll(@, <<run.state, last.project.state>>)]
  /\ UNCHANGED <<project, global, now, nextId>>

\* A mkdir of the project tier's initialize() returns.
InitializeProjectStep ==
  /\ last.op = "initialize" /\ last.project.state = "pending"
  /\ \E ok \in BOOLEAN :
       \E run \in {initializeStep(last.project, ok)} :
         last' = [last EXCEPT
                    !.project = run,
                    !.promise = PromiseAll(@, <<last.global.state, run.state>>)]
  /\ UNCHANGED <<project, global, now, nextId>>

NextInitialize == InitializeGlobalStep \/ InitializeProjectStep

SpecInitialize == InitInitialize /\ [][NextInitialize]_vars

\* C25: the coordinator's initialize() is settled, fulfilled or rejected,
\* only when the initialize() of the global tier and that of the project
\* tier are both settled.
C25_InitializeJoinsBoth ==
  (last.op = "initialize" /\ last.promise # "pending") =>
    (last.global.state # "pending" /\ last.project.state # "pending")

(***************************************************************************)
(* Resolution by the coordinator's getDocument when no file operation      *)
(* fails: documents are scraped into either tier, removed one by one, and  *)
(* requested.                                                              *)
(***************************************************************************)
ResolveScrape == ScrapeDocsOf({REACT}, GetVersions, {PageHooks}, BOOLEAN, {"none"})

ResolveDelete == DeleteDocumentOf(Tiers, {"none"})

ResolveGet == GetDocumentOf({REACT}, GetRequests, {"none"})

NextResolve == ResolveScrape \/ ResolveDelete \/ ResolveGet

SpecResolve == Init /\ [][NextResolve]_vars

\* The documents of the library that tier t holds at a version compatible
\* with the request.
CompatibleStored(t, library, requested) ==
  {doc \in StoredDocuments(t) :
     doc.library = library /\ isVersionCompatible(doc.version, requested)}

\* C26: getDocument(library, requested) returns null only when neither tier
\* holds a document of the library at a version compatible with the
\* request, also after versions of the library were removed with
\* deleteDocument.
C26_NullOnlyWhenNothingCompatible ==
  [][(IsGet(last') /\ ~last'.threw /\ last'.ret = Null) =>
       /\ CompatibleStored(project, last'.library, last'.version) = {}
       /\ CompatibleStored(global, last'.library, last'.version) = {}]_vars

\* C28: every document that getDocument(library, requested) returns has the
\* requested library and a version compatible with the request.
C28_ReturnedIsRequestedAndCompatible ==
  (IsGet(last) /\ last.ret # Null) =>
    /\ Get(last.ret).library = last.library
    /\ isVersionCompatible(Get(last.ret).version, last.version)


(***************************************************************************)
(* Two saveDocument calls in flight on the project tier                    *)
(* (DocFileStorage.saveDocument, DocFileStorage.updateLibraryInfo).        *)
(*                                                                         *)
(* The calls are held in last: for each call its document, the await at    *)
(* which it stands and the library record it has read.  Every await is a   *)
(* point at which the other call may run.                                  *)
(***************************************************************************)
\* The awaits of saveDocument in program order, the awaits of
\* updateLibraryInfo included.
SAVE_AWAITS == <<"mkdirDocument", "writeDocument", "getLibrary",
                 "mkdirLibrary", "writeLibrary", "done">>

AfterAwait(at) ==
  SAVE_AWAITS[(CHOOSE k \in 1..Len(SAVE_AWAITS) : SAVE_AWAITS[k] = at) + 1]

\* fs.writeFile(docPath, ...) returns.
saveDocumentWrite(t, doc) ==
  [t EXCEPT !.docs = WriteFile(@, getDocumentPath(doc.library, doc.version), doc)]

\* getLibrary returns to updateLibraryInfo, which then adds the version to
\* the record it holds and stamps it, before its next await.
updateLibraryInfoRead(t, name, version, time) ==
  LET OrNew(found) ==
        IF found # Null THEN Get(found)
        ELSE [name |-> name, versions |-> << >>, source |-> UNKNOWN,
              lastScraped |-> time, projectSpecific |-> TRUE]
      Pushed(library) ==
        [library EXCEPT
           !.versions = IF SeqIncludes(@, version) THEN @ ELSE Append(@, version),
           !.lastScraped = time]
  IN Pushed(OrNew(getLibrary(t, name)))

\* fs.writeFile(libraryPath, ...) returns: the record held by the call
\* replaces the file.
updateLibraryInfoWrite(t, name, library) ==
  [t EXCEPT !.libs = WriteFile(@, getLibraryPath(name), library)]

ConcurrentVersions == {V18_0_0, V18_2_0, LATEST}

ConcurrentDocument(id, version) ==
  [id |-> id, library |-> REACT, version |-> version,
   url |-> PageHooks.url, content |-> PageHooks.content,
   metadata |-> [title |-> PageHooks.title,
                 description |-> PageHooks.description,
                 source |-> <<"w", "e", "b">>],
   projectId |-> Some(CURRENT), createdAt |-> 0, updatedAt |-> 0]

\* The tier before the two calls: empty, or holding one version of the
\* library, saved by a call that has completed.
ConcurrentTiers ==
  {EmptyTier} \cup
  {saveDocument(EmptyTier, ConcurrentDocument(1, version), "none", 0).tier :
     version \in ConcurrentVersions}

NewSave(doc) == [doc |-> doc, at |-> SAVE_AWAITS[1], library |-> Null]

\* Two calls for two different versions of the same library.
ConcurrentSaves ==
  {[op |-> "saveDocument",
    calls |-> <<NewSave(ConcurrentDocument(2, pair[1])),
                NewSave(ConcurrentDocument(3, pair[2]))>>] :
     pair \in {vs \in ConcurrentVersions \X ConcurrentVersions : vs[1] # vs[2]}}

InitConcurrent ==
  /\ project \in ConcurrentTiers
  /\ global = EmptyTier
  /\ now = 0
  /\ nextId = 4
  /\ last \in ConcurrentSaves

Standing(i, at) == last.op = "saveDocument" /\ last.calls[i].at = at

Advance(i) == last' = [last EXCEPT !.calls[i].at = AfterAwait(@)]

\* fs.mkdir(dirname(docPath)) returns.
SaveMkdirDocument ==
  \E i \in 1..2 :
    /\ Standing(i, "mkdirDocument")
    /\ Advance(i)
    /\ UNCHANGED <<project, global, now, nextId>>

SaveWriteDocument ==
  \E i \in 1..2 :
    /\ Standing(i, "writeDocument")
    /\ project' = saveDocumentWrite(project, last.calls[i].doc)
    /\ Advance(i)
    /\ UNCHANGED <<global, now, nextId>>

SaveGetLibrary ==
  \E i \in 1..2 :
    /\ Standing(i, "getLibrary")
    /\ last' = [last EXCEPT
                  !.calls[i].at = AfterAwait(@),
                  !.calls[i].library =
                     Some(updateLibraryInfoRead(project, last.calls[i].doc.library,
                                                last.calls[i].doc.version, now))]
    /\ UNCHANGED <<project, global, now, nextId>>

\* fs.mkdir(dirname(libraryPath)) returns.
SaveMkdirLibrary ==
  \E i \in 1..2 :
    /\ Standing(i, "mkdirLibrary")
    /\ Advance(i)
    /\ UNCHANGED <<project, global, now, nextId>>

SaveWriteLibrary ==
  \E i \in 1..2 :
    /\ Standing(i, "writeLibrary")
    /\ project' = updateLibraryInfoWrite(project, last.calls[i].doc.library,
                                         Get(last.calls[i].library))
    /\ Advance(i)
    /\ UNCHANGED <<global, now, nextId>>

NextConcurrent ==
  \/ SaveMkdirDocument
  \/ SaveWriteDocument
  \/ SaveGetLibrary
  \/ SaveMkdirLibrary
  \/ SaveWriteLibrary

SpecConcurrent == InitConcurrent /\ [][NextConcurrent]_vars

BothSavesDone ==
  last.op = "saveDocument" /\ \A i \in 1..2 : last.calls[i].at = "done"

\* C27: when two concurrent saveDocument calls for two different versions
\* of one library have both completed, the Library record of the tier lists
\* both versions, whatever the interleaving of their steps.
C27_ConcurrentSavesKeepBothVersions ==
  BothSavesDone =>
    \A i \in 1..2 :
      /\ getLibrary(project, last.calls[i].doc.library) # Null
      /\ SeqIncludes(Get(getLibrary(project, last.calls[i].doc.library)).versions,
                     last.calls[i].doc.version)


(***************************************************************************)
(* Bidirectional sync: documents are scraped into either tier at different *)
(* instants, a scrape may fail at the write of the library file, and no    *)
(* transfer of a sync fails.                                               *)
(***************************************************************************)
ConvergeTick == nextId <= MaxDocs /\ Tick
ConvergeScrape ==
  ScrapeDocsOf({REACT}, StoreVersions, {PageHooks}, BOOLEAN, {"none", "lib"})
ConvergeSync == SyncDocsOf({"bidirectional"}, SyncFilters, {"none"})

NextConverge == ConvergeTick \/ ConvergeScrape \/ ConvergeSync

SpecConverge == Init /\ [][NextConverge]_vars

\* The later updatedAt of the documents the two tiers hold at a path.
LaterUpdatedAt(p, g, path) ==
  IF path \notin DOMAIN g.docs THEN p.docs[path].updatedAt
  ELSE IF path \notin DOMAIN p.docs THEN g.docs[path].updatedAt
  ELSE Max(p.docs[path].updatedAt, g.docs[path].updatedAt)

\* Both tiers afterwards hold, at every path at which one of them held a
\* document before, a document with the later of the earlier updatedAt.
Converged(p, g, pAfter, gAfter) ==
  \A path \in DOMAIN p.docs \cup DOMAIN g.docs :
    /\ path \in DOMAIN pAfter.docs /\ path \in DOMAIN gAfter.docs
    /\ pAfter.docs[path].updatedAt = LaterUpdatedAt(p, g, path)
    /\ gAfter.docs[path].updatedAt = LaterUpdatedAt(p, g, path)

\* C29: a bidirectional sync without a filter and without a failed transfer
\* leaves both tiers with a document at every address at which either held
\* one, both copies carrying the later updatedAt; a bidirectional sync that
\* directly follows such a sync transfers nothing.
C29_BidirectionalSyncConverges ==
  [][(IsDirected(last', "bidirectional") /\ last'.library = Null
        /\ last'.errors = 0) =>
       /\ Converged(project, global, project', global')
       /\ (IsDirected(last, "bidirectional") /\ last.errors = 0) =>
            (last'.synced = 0 /\ project' = project /\ global' = global)]_vars


(***************************************************************************)
(* The order of the list of available versions.                            *)
(***************************************************************************)
\* The lists that hold the entries of a list in some order.
Reorderings(list) ==
  {[i \in 1..Len(list) |-> list[f[i]]] :
     f \in {g \in [1..Len(list) -> 1..Len(list)] :
              \A j, k \in 1..Len(list) : g[j] = g[k] => j = k}}

\* C30: findBestVersion returns the same string for every order of the
\* list of available versions, also when the list holds unparseable strings
\* or different strings that compare equal.
C30_FindBestVersionIgnoresOrder ==
  (last.op = "findBestVersion") =>
    \A permuted \in Reorderings(last.available) :
      findBestVersion(permuted, last.requested) = last.ret

====
